---- MODULE Spec2Model ----
(***************************************************************************)
(* boiling-fullstack: the identifier / port validators, the configuration *)
(* collection flow (runCli), the template renderer (copyAndRenderDir) and  *)
(* the scaffolder (scaffold), modelled from the TypeScript sources.        *)
(*                                                                         *)
(* JavaScript strings are TLA+ strings (TLC evaluates Len, \o and SubSeq   *)
(* on them).  A JavaScript number is a record [nan, h]: nan marks NaN and  *)
(* h is twice the value, so that 3000.5 is representable and               *)
(* Number.isInteger is a real test.                                        *)
(***************************************************************************)
EXTENDS Integers, Sequences, FiniteSets, TLC

(***************************************************************************)
(* Bounds of the model.                                                    *)
(***************************************************************************)
\* longest accumulator handed to a validator in the pure-function specification
MaxUsed == 2
\* largest frontend count the user answers in the collection-flow specification
MaxCountAnswer == 2
\* most frontends of a config handed to scaffold in the scaffold specification
MaxFrontends == 2
\* longest password requested with every byte sequence over the samples drawn
MaxPasswordLength == 4

(***************************************************************************)
(* String helpers                                                          *)
(***************************************************************************)
CharAt(s, i) == SubSeq(s, i, i)

LowerChars == "abcdefghijklmnopqrstuvwxyz"
DigitChars == "0123456789"

InChars(c, chars) == \E k \in 1..Len(chars) : CharAt(chars, k) = c

IsLower(c) == InChars(c, LowerChars)
IsDigit(c) == InChars(c, DigitChars)
IsLowerOrDigit(c) == IsLower(c) \/ IsDigit(c)

\* s.endsWith(suffix)
EndsWith(s, suffix) ==
    /\ Len(s) >= Len(suffix)
    /\ SubSeq(s, Len(s) - Len(suffix) + 1, Len(s)) = suffix

\* s.slice(0, -n)
SliceOff(s, n) == IF Len(s) > n THEN SubSeq(s, 1, Len(s) - n) ELSE ""

\* array.includes(x)
Includes(arr, x) == \E k \in 1..Len(arr) : arr[k] = x

(***************************************************************************)
(* JavaScript numbers                                                      *)
(***************************************************************************)
NaN == [nan |-> TRUE, h |-> 0]
Num(n) == [nan |-> FALSE, h |-> 2 * n]
\* n + 0.5
Half(n) == [nan |-> FALSE, h |-> 2 * n + 1]

isNaN(x) == x.nan
NumberIsInteger(x) == ~x.nan /\ x.h % 2 = 0
\* x < n and x > n for an integer literal n; every comparison with NaN is false
NumLt(x, n) == ~x.nan /\ x.h < 2 * n
NumGt(x, n) == ~x.nan /\ x.h > 2 * n
\* x === n
NumEq(x, n) == ~x.nan /\ x.h = 2 * n
\* the integer value of an integral number
IntOf(x) == x.h \div 2

DigitVal(c) == CHOOSE d \in 0..9 : CharAt(DigitChars, d + 1) = c

RECURSIVE SkipSpaces(_, _)
\* index of the first character of s at or after i that is not white space
SkipSpaces(s, i) ==
    IF i <= Len(s) /\ CharAt(s, i) = " " THEN SkipSpaces(s, i + 1) ELSE i

RECURSIVE DigitsValue(_, _, _)
\* value of the longest run of decimal digits of s starting at i, given the
\* value acc of the digits already read
DigitsValue(s, i, acc) ==
    IF i <= Len(s) /\ IsDigit(CharAt(s, i))
    THEN DigitsValue(s, i + 1, 10 * acc + DigitVal(CharAt(s, i)))
    ELSE acc

\* parseInt(s, 10): leading white space, an optional sign, then the longest
\* prefix of decimal digits; NaN when there is no digit
parseInt(s) ==
    LET i == SkipSpaces(s, 1)
        neg == i <= Len(s) /\ CharAt(s, i) = "-"
        j == IF i <= Len(s) /\ CharAt(s, i) \in {"-", "+"} THEN i + 1 ELSE i
    IN  IF j <= Len(s) /\ IsDigit(CharAt(s, j))
        THEN Num((IF neg THEN -1 ELSE 1) * DigitsValue(s, j, 0))
        ELSE NaN

RECURSIVE NumberToString(_)
\* String(n) for a non-negative integer n
NumberToString(n) ==
    IF n < 10 THEN CharAt(DigitChars, n + 1)
    ELSE NumberToString(n \div 10) \o CharAt(DigitChars, (n % 10) + 1)

(***************************************************************************)
(* utils/validation.ts                                                     *)
(***************************************************************************)
RECURSIVE SkipLowerOrDigit(_, _)
\* index after the longest run of [a-z0-9] of s starting at i
SkipLowerOrDigit(s, i) ==
    IF i <= Len(s) /\ IsLowerOrDigit(CharAt(s, i))
    THEN SkipLowerOrDigit(s, i + 1)
    ELSE i

RECURSIVE KebabGroups(_, _)
\* (?:-[a-z0-9]+)*$ matched against s from index i
KebabGroups(s, i) ==
    IF i > Len(s) THEN TRUE
    ELSE /\ CharAt(s, i) = "-"
         /\ i + 1 <= Len(s)
         /\ IsLowerOrDigit(CharAt(s, i + 1))
         /\ KebabGroups(s, SkipLowerOrDigit(s, i + 1))

\* KEBAB_CASE_REGEX.test(name), /^[a-z][a-z0-9]*(?:-[a-z0-9]+)*$/
KEBAB_CASE_REGEX(name) ==
    /\ Len(name) >= 1
    /\ IsLower(CharAt(name, 1))
    /\ KebabGroups(name, SkipLowerOrDigit(name, 2))

RESERVED_SERVICE_NAMES == <<"backend", "db", "pgadmin", "adminer">>

\* the value `true` of a ValidationResult; every other value is a reason
ValidOk == "true"

isValidServiceName_noReserved(name, usedNames) ==
    IF name = "" THEN "Service name is required"
    ELSE IF ~KEBAB_CASE_REGEX(name) THEN "Name must be in kebab-case (e.g. my-frontend)"
    ELSE IF Includes(usedNames, name) THEN "Name \"" \o name \o "\" is already taken"
    ELSE ValidOk

isValidServiceName(name, usedNames) ==
    IF name = "" THEN "Service name is required"
    ELSE IF ~KEBAB_CASE_REGEX(name) THEN "Name must be in kebab-case (e.g. my-frontend)"
    ELSE IF Includes(RESERVED_SERVICE_NAMES, name) THEN "Name \"" \o name \o "\" is reserved"
    ELSE IF Includes(usedNames, name) THEN "Name \"" \o name \o "\" is already taken"
    ELSE ValidOk

isValidPort_offByOne(port, usedPorts) ==
    IF ~NumberIsInteger(port) THEN "Port must be an integer"
    ELSE IF NumLt(port, 1023) \/ NumGt(port, 65535) THEN "Port must be between 1024 and 65535"
    ELSE IF NumEq(port, 5432) THEN "Port 5432 is reserved for PostgreSQL"
    ELSE IF Includes(usedPorts, port) THEN "Port " \o NumberToString(IntOf(port)) \o " is already in use"
    ELSE ValidOk

isValidPort(port, usedPorts) ==
    IF ~NumberIsInteger(port) THEN "Port must be an integer"
    ELSE IF NumLt(port, 1024) \/ NumGt(port, 65535) THEN "Port must be between 1024 and 65535"
    ELSE IF NumEq(port, 5432) THEN "Port 5432 is reserved for PostgreSQL"
    ELSE IF Includes(usedPorts, port) THEN "Port " \o NumberToString(IntOf(port)) \o " is already in use"
    ELSE ValidOk

(***************************************************************************)
(* The file system (fs-extra) and paths                                    *)
(*                                                                         *)
(* A file system is a record [files, dirs]: files maps each path of a      *)
(* regular file to its content, dirs is the set of directory paths.        *)
(* fs.remove is taken to succeed whenever it is called.                    *)
(***************************************************************************)
RECURSIVE LastSlash(_, _)
\* index of the last "/" of p at or before i, 0 when there is none
LastSlash(p, i) ==
    IF i = 0 THEN 0
    ELSE IF CharAt(p, i) = "/" THEN i
    ELSE LastSlash(p, i - 1)

\* path.dirname(p) of an absolute path
Dirname(p) ==
    LET i == LastSlash(p, Len(p))
    IN  IF i <= 1 THEN "/" ELSE SubSeq(p, 1, i - 1)

\* path.join(dir, rel) for a normalized relative path rel without dot segments
PathJoin(dir, rel) == IF rel = "" THEN dir ELSE dir \o "/" \o rel

\* path.relative(dir, p) for a path p below dir
PathRelative(dir, p) == SubSeq(p, Len(dir) + 2, Len(p))

\* p is root or lies below it
IsUnder(p, root) ==
    \/ p = root
    \/ /\ Len(p) > Len(root)
       /\ SubSeq(p, 1, Len(root) + 1) = root \o "/"

RECURSIVE Ancestors(_)
\* p and every directory above it, the file-system root excluded
Ancestors(p) == IF p = "/" \/ p = "" THEN {} ELSE {p} \cup Ancestors(Dirname(p))

EmptyFs == [files |-> <<>>, dirs |-> {}]

\* fs.pathExists(p)
pathExists(fs, p) == p \in fs.dirs \/ p \in DOMAIN fs.files

\* fs.remove(p): p and everything below it
remove(fs, p) ==
    [files |-> [q \in {x \in DOMAIN fs.files : ~IsUnder(x, p)} |-> fs.files[q]],
     dirs |-> {d \in fs.dirs : ~IsUnder(d, p)}]

\* fs.ensureDir(d) cannot succeed when a regular file is in the way
ensureDirBlocked(fs, d) == \E a \in Ancestors(d) : a \in DOMAIN fs.files

\* fs.ensureDir(d): d and its missing parents
ensureDir(fs, d) == [fs EXCEPT !.dirs = @ \cup Ancestors(d)]

\* fs.writeFile(p, content) and fs.copy(src, p) replace an existing file
writeFile(fs, p, content) ==
    [fs EXCEPT !.files =
        [q \in DOMAIN fs.files \cup {p} |-> IF q = p THEN content ELSE fs.files[q]]]

\* the files and directories of fs below root, by their path relative to root
TreeOf(fs, root) ==
    [files |-> [rel \in {PathRelative(root, q) : q \in {x \in DOMAIN fs.files : IsUnder(x, root)}}
                   |-> fs.files[PathJoin(root, rel)]],
     dirs |-> {PathRelative(root, d) : d \in {x \in fs.dirs : IsUnder(x, root) /\ x # root}}]

(***************************************************************************)
(* Templates and ejs                                                       *)
(*                                                                         *)
(* The content of a file is a sequence of tokens: literal text, <%= f %>   *)
(* for a field f of the data context, a loop over data.frontends printing  *)
(* one field of each, or a syntax error.  A static file holds literal      *)
(* tokens only.  A template directory is a sequence of entries in the      *)
(* order readdir lists them.                                               *)
(***************************************************************************)
Lit(text) == [t |-> "lit", v |-> text]
Var(field) == [t |-> "var", v |-> field]
EachFrontend(field) == [t |-> "each", v |-> field]
Unclosed == [t |-> "bad", v |-> "<%"]

File(name, content) == [kind |-> "file", name |-> name, content |-> content]
Dir(name, entries) == [kind |-> "dir", name |-> name, entries |-> entries]

RECURSIVE JoinField(_, _)
\* frontends.map(f => f[field]).join('')
JoinField(frontends, field) ==
    IF frontends = <<>> THEN ""
    ELSE Head(frontends)[field] \o JoinField(Tail(frontends), field)

\* ejs.render fails on a syntax error and on a name the data does not define
TemplateError(template, data) ==
    IF \E k \in 1..Len(template) : template[k].t = "bad"
        THEN "SyntaxError: Could not find matching close tag for \"<%\"."
    ELSE IF \E k \in 1..Len(template) :
                /\ template[k].t = "var"
                /\ template[k].v \notin DOMAIN data.fields
        THEN "ReferenceError: " \o
             (LET k == CHOOSE k \in 1..Len(template) :
                          /\ template[k].t = "var"
                          /\ template[k].v \notin DOMAIN data.fields
                          /\ \A j \in 1..(k - 1) :
                                ~(template[j].t = "var" /\ template[j].v \notin DOMAIN data.fields)
              IN  template[k].v) \o " is not defined"
    ELSE IF (\E k \in 1..Len(template) : template[k].t = "each") /\ ~data.hasFrontends
        THEN "ReferenceError: frontends is not defined"
    ELSE ""

RECURSIVE RenderText(_, _)
RenderText(template, data) ==
    IF template = <<>> THEN ""
    ELSE LET tok == Head(template)
             text == CASE tok.t = "lit" -> tok.v
                       [] tok.t = "var" -> data.fields[tok.v]
                       [] tok.t = "each" -> JoinField(data.frontends, tok.v)
                       [] OTHER -> ""
         IN  text \o RenderText(Tail(template), data)

\* ejs.render(template, data): the rendered text as the content of a file
ejsRender(template, data) == <<Lit(RenderText(template, data))>>

RECURSIVE getAllFiles(_, _)
\* getAllFiles(dir): the files below dir, depth first in listing order
getAllFiles(dir, entries) ==
    IF entries = <<>> THEN <<>>
    ELSE LET entry == Head(entries)
             fullPath == PathJoin(dir, entry.name)
         IN  (IF entry.kind = "dir"
              THEN getAllFiles(fullPath, entry.entries)
              ELSE <<[filePath |-> fullPath, content |-> entry.content]>>)
             \o getAllFiles(dir, Tail(entries))

\* outputName.replace(/(^|\/)gitignore$/, '$1.gitignore')
ReplaceGitignore(outputName) ==
    IF outputName = "gitignore" THEN ".gitignore"
    ELSE IF EndsWith(outputName, "/gitignore")
        THEN SliceOff(outputName, 9) \o ".gitignore"
    ELSE outputName

OutputName_renameBeforeStrip(relativePath) ==
    LET renamed == ReplaceGitignore(relativePath)
    IN  IF EndsWith(renamed, ".ejs") THEN SliceOff(renamed, 4) ELSE renamed

\* the output name copyAndRenderDir computes for a template file
OutputName(relativePath) ==
    LET isEjs == EndsWith(relativePath, ".ejs")
        stripped == IF isEjs THEN SliceOff(relativePath, 4) ELSE relativePath
    IN  ReplaceGitignore(stripped)

\* faults of the host a file operation can meet
Faults == {"none", "read", "write"}

\* a renderer whose output depends on where it writes
renderTemplateFile_outputPathInText(fs, file, outputPath, data, fault) ==
    IF TemplateError(file.content, data) # ""
        THEN [fs |-> fs, error |-> TemplateError(file.content, data)]
    ELSE [fs |-> writeFile(ensureDir(fs, Dirname(outputPath)), outputPath,
                           ejsRender(<<Lit(outputPath)>> \o file.content, data)),
          error |-> ""]

\* renderTemplateFile(templatePath, outputPath, data) on file system fs under
\* fault: the file system it leaves and the error it throws ("" for none)
renderTemplateFile(fs, file, outputPath, data, fault) ==
    IF fault = "read"
        THEN [fs |-> fs, error |-> "EIO: read " \o file.filePath]
    ELSE IF TemplateError(file.content, data) # ""
        THEN [fs |-> fs, error |-> TemplateError(file.content, data)]
    ELSE IF ensureDirBlocked(fs, Dirname(outputPath))
        THEN [fs |-> fs, error |-> "ENOTDIR: mkdir " \o Dirname(outputPath)]
    ELSE IF fault = "write"
        THEN [fs |-> ensureDir(fs, Dirname(outputPath)),
              error |-> "ENOSPC: write " \o outputPath]
    ELSE IF outputPath \in fs.dirs
        THEN [fs |-> ensureDir(fs, Dirname(outputPath)),
              error |-> "EISDIR: open " \o outputPath]
    ELSE [fs |-> writeFile(ensureDir(fs, Dirname(outputPath)), outputPath,
                           ejsRender(file.content, data)),
          error |-> ""]

\* the static branch: fs.ensureDir, then fs.copy
copyFile(fs, file, outputPath, fault) ==
    IF ensureDirBlocked(fs, Dirname(outputPath))
        THEN [fs |-> fs, error |-> "ENOTDIR: mkdir " \o Dirname(outputPath)]
    ELSE IF fault = "read"
        THEN [fs |-> ensureDir(fs, Dirname(outputPath)),
              error |-> "EIO: read " \o file.filePath]
    ELSE IF fault = "write"
        THEN [fs |-> ensureDir(fs, Dirname(outputPath)),
              error |-> "ENOSPC: write " \o outputPath]
    ELSE IF outputPath \in fs.dirs
        THEN [fs |-> ensureDir(fs, Dirname(outputPath)),
              error |-> "EISDIR: copy " \o outputPath]
    ELSE [fs |-> writeFile(ensureDir(fs, Dirname(outputPath)), outputPath, file.content),
          error |-> ""]

\* one iteration of the loop of copyAndRenderDir
ProcessFile(fs, templateDir, outputDir, data, file, fault) ==
    LET relativePath == PathRelative(templateDir, file.filePath)
        outputPath == PathJoin(outputDir, OutputName(relativePath))
    IN  IF EndsWith(relativePath, ".ejs")
        THEN renderTemplateFile(fs, file, outputPath, data, fault)
        ELSE copyFile(fs, file, outputPath, fault)

(***************************************************************************)
(* State                                                                   *)
(***************************************************************************)
VARIABLES
    call,       \* the validator call of the pure-function specification
    env,        \* the host: which external commands exist
    cli,        \* the locals of runCli and the state of its current prompt
    out,        \* what runCli printed: warnings, cancel and outro messages
    fs,         \* the file system below the invocation directory
    tpl,        \* the template directories shipped with the tool (read-only)
    rd,         \* the copyAndRenderDir calls of the render specification
    sc,         \* the locals of each scaffold run
    cmds        \* the external commands that were started

vars == <<call, env, cli, out, fs, tpl, rd, sc, cmds>>

NoCall == [fn |-> "none"]

\* no copyAndRenderDir call of the render specification is in progress
RdIdle == [pc |-> "idle", n |-> 0, data |-> <<>>, files |-> <<>>, k |-> 0, error |-> ""]

\* no scaffold run exists
ScIdle == <<>>

(***************************************************************************)
(* utils/validation.ts: isValidProjectName, generateJwtSecret              *)
(***************************************************************************)
UpperChars == "ABCDEFGHIJKLMNOPQRSTUVWXYZ"
HexChars == "0123456789abcdef"

HasChar(s, chars) == \E k \in 1..Len(s) : InChars(CharAt(s, k), chars)

\* names of Node core modules the package-name validator warns about (a sample)
CoreModuleNames == {"http", "fs", "path", "os"}

\* validate-npm-package-name: the first of its errors, else the first of its
\* warnings, else "" (validForNewPackages)
validateNpmPackageName(name) ==
    IF CharAt(name, 1) = "." THEN "name cannot start with a period"
    ELSE IF CharAt(name, 1) = "_" THEN "name cannot start with an underscore"
    ELSE IF CharAt(name, 1) = " " \/ CharAt(name, Len(name)) = " "
        THEN "name cannot contain leading or trailing spaces"
    ELSE IF name \in {"node_modules", "favicon.ico"} THEN name \o " is a blacklisted name"
    ELSE IF HasChar(name, " /:@?#%") THEN "name can only contain URL-friendly characters"
    ELSE IF name \in CoreModuleNames THEN name \o " is a core module name"
    ELSE IF Len(name) > 214 THEN "name can no longer contain more than 214 characters"
    ELSE IF HasChar(name, UpperChars) THEN "name can no longer contain capital letters"
    ELSE IF HasChar(name, "~'!()*") THEN "name can no longer contain special characters (\"~'!()*\")"
    ELSE ""

isValidProjectName(name) ==
    IF name = "" THEN "Project name is required"
    ELSE IF validateNpmPackageName(name) # "" THEN validateNpmPackageName(name)
    ELSE IF ~KEBAB_CASE_REGEX(name) THEN "Name must be in kebab-case (e.g. my-project)"
    ELSE ValidOk

\* Buffer.toString('hex')
HexOfByte(b) == CharAt(HexChars, (b \div 16) + 1) \o CharAt(HexChars, (b % 16) + 1)

RECURSIVE HexOf(_)
HexOf(bytes) == IF bytes = <<>> THEN "" ELSE HexOfByte(Head(bytes)) \o HexOf(Tail(bytes))

\* crypto.randomBytes(length): any byte sequence of that length; the model
\* draws the sequences whose bytes are all equal to one of the samples
ByteSamples == {0, 255}
randomBytes(length) == {[k \in 1..length |-> b] : b \in ByteSamples}

\* generateJwtSecret(length) applied to the bytes drawn
generateJwtSecret(bytes) == HexOf(bytes)

(***************************************************************************)
(* cli.ts: runCli, the configuration-collection flow                       *)
(***************************************************************************)
\* what the user may type at each prompt
ProjectNameAnswers == {"demo", "Demo", "http", "my app", ""}
CountAnswers ==
    {NumberToString(n) : n \in 0..MaxCountAnswer} \cup {"6", "2x", "abc", ""}
ServiceNameAnswers ==
    {"app", "web", "backend", "db", "pgadmin", "adminer", "My-App", ""}
PortAnswers == {"3000", "3001", "3010", "5050", "3000x", "5432", "80", "70000", "abc", ""}
DbNameAnswers == {"demo_db", ""}
DbUserAnswers == {"postgres", ""}
PasswordAnswers == {"s3cretpass", "short", ""}
EmailAnswers == {"admin@admin.com", ""}

CliIdle ==
    [pc |-> "idle", projectName |-> "", frontendCount |-> 0, i |-> 0,
     usedPorts |-> <<>>, usedServiceNames |-> <<>>, frontends |-> <<>>,
     serviceName |-> "", framework |-> "", styling |-> "",
     backendPort |-> NaN, dbName |-> "", dbUser |-> "", dbPassword |-> "",
     jwtSecret |-> "", dbAdminTool |-> "", dbAdminPort |-> NaN,
     pgAdminEmail |-> "", dbAdmin |-> <<>>, config |-> <<>>,
     promptError |-> "", exitCode |-> -1, error |-> "",
     options |-> [force |-> FALSE, verbose |-> FALSE]]

CliPrompts ==
    {"projectName", "frontendCount", "serviceName", "framework", "styling",
     "port", "backendPort", "dbName", "dbUser", "dbPassword", "dbAdminTool",
     "dbAdminPort", "pgAdminEmail", "pgAdminPassword", "confirm"}

\* clack's text prompt: the submitted value goes through validate; a problem
\* keeps the prompt open with the message shown, otherwise the prompt
\* resolves to the value, or to defaultValue when the value is empty
TextResult(value, defaultValue) == IF value = "" THEN defaultValue ELSE value

Rejected_addsCandidate(value, problem) ==
    cli' = [cli EXCEPT !.promptError = problem,
                       !.usedServiceNames = Append(@, value),
                       !.usedPorts = Append(@, parseInt(value))]

Rejected(value, problem) == cli' = [cli EXCEPT !.promptError = problem]

\* the validate callbacks: "" stands for undefined (no problem)
validateProjectName(value) ==
    IF isValidProjectName(value) # ValidOk THEN isValidProjectName(value) ELSE ""

validateFrontendCount_noUpperBound(value) ==
    LET n == parseInt(value)
    IN  IF isNaN(n) \/ NumLt(n, 1)
        THEN "Enter a number between 1 and 5" ELSE ""

validateFrontendCount(value) ==
    LET n == parseInt(value)
    IN  IF isNaN(n) \/ NumLt(n, 1) \/ NumGt(n, 5)
        THEN "Enter a number between 1 and 5" ELSE ""

validateServiceName_noAccumulator(value, usedServiceNames) ==
    IF isValidServiceName(value, <<>>) # ValidOk
    THEN isValidServiceName(value, <<>>) ELSE ""

validateServiceName(value, usedServiceNames) ==
    IF isValidServiceName(value, usedServiceNames) # ValidOk
    THEN isValidServiceName(value, usedServiceNames) ELSE ""

validatePort_noAccumulator(value, usedPorts) ==
    LET port == parseInt(value)
    IN  IF isNaN(port) THEN "Enter a valid number"
        ELSE IF isValidPort(port, <<>>) # ValidOk
        THEN isValidPort(port, <<>>) ELSE ""

validatePort(value, usedPorts) ==
    LET port == parseInt(value)
    IN  IF isNaN(port) THEN "Enter a valid number"
        ELSE IF isValidPort(port, usedPorts) # ValidOk
        THEN isValidPort(port, usedPorts) ELSE ""

validateRequired(value, message) == IF value = "" THEN message ELSE ""

validatePassword(value) ==
    IF value = "" THEN "Password is required"
    ELSE IF Len(value) < 8 THEN "Password must be at least 8 characters"
    ELSE ""

\* the default answers runCli offers
DefaultServiceName(frontendCount, i) ==
    IF frontendCount = 1 THEN "frontend" ELSE "frontend-" \o NumberToString(i + 1)
DefaultFrontendPort_stepOne(i) == 3000 + i
DefaultFrontendPort(i) == 3000 + i * 10
DefaultDbAdminPort(tool) == IF tool = "pgadmin" THEN 5050 ELSE 8080

\* the accumulators as runCli creates them
InitialUsedPorts == <<Num(5432)>>
InitialUsedServiceNames == <<"backend", "db">>

CliStart_gitOptional ==
    /\ cli.pc = "start"
    /\ cli' = [cli EXCEPT !.pc = "projectName"]
    /\ out' = IF env.git /\ env.docker THEN out ELSE Append(out, "warn: docker not found")
    /\ UNCHANGED <<call, env, fs, tpl, rd, sc, cmds>>

\* checkEnvironment, then the first prompt
CliStart ==
    /\ cli.pc = "start"
    /\ IF ~env.git
       THEN /\ cli' = [cli EXCEPT !.pc = "threw",
                          !.error = "git is required but was not found. Please install git before continuing."]
            /\ out' = out
       ELSE /\ cli' = [cli EXCEPT !.pc = "projectName"]
            /\ out' = IF env.docker THEN out ELSE Append(out, "warn: docker not found")
    /\ UNCHANGED <<call, env, fs, tpl, rd, sc, cmds>>

\* handleCancel: the user cancels the prompt that is open; process.exit(0)
\* ends the process and its locals with it
CliCancel ==
    /\ cli.pc \in CliPrompts
    /\ cli' = [CliIdle EXCEPT !.pc = "exited", !.exitCode = 0]
    /\ out' = Append(out, "cancel: Operation cancelled.")
    /\ UNCHANGED <<call, env, fs, tpl, rd, sc, cmds>>

AnswerProjectName ==
    /\ cli.pc = "projectName"
    /\ \E value \in ProjectNameAnswers :
        IF validateProjectName(value) # ""
        THEN Rejected(value, validateProjectName(value))
        ELSE cli' = [cli EXCEPT !.pc = "frontendCount", !.projectName = value, !.promptError = ""]
    /\ UNCHANGED <<call, env, out, fs, tpl, rd, sc, cmds>>

AnswerFrontendCount ==
    /\ cli.pc = "frontendCount"
    /\ \E value \in CountAnswers :
        IF validateFrontendCount(value) # ""
        THEN Rejected(value, validateFrontendCount(value))
        ELSE cli' = [cli EXCEPT !.pc = "serviceName",
                        !.frontendCount = IntOf(parseInt(TextResult(value, "1"))),
                        !.usedPorts = InitialUsedPorts,
                        !.usedServiceNames = InitialUsedServiceNames,
                        !.frontends = <<>>, !.i = 0, !.promptError = ""]
    /\ UNCHANGED <<call, env, out, fs, tpl, rd, sc, cmds>>

AnswerServiceName ==
    /\ cli.pc = "serviceName"
    /\ \E value \in ServiceNameAnswers :
        IF validateServiceName(value, cli.usedServiceNames) # ""
        THEN Rejected(value, validateServiceName(value, cli.usedServiceNames))
        ELSE LET serviceName ==
                    TextResult(value, DefaultServiceName(cli.frontendCount, cli.i))
             IN  cli' = [cli EXCEPT !.pc = "framework",
                            !.serviceName = serviceName,
                            !.usedServiceNames = Append(@, serviceName), !.promptError = ""]
    /\ UNCHANGED <<call, env, out, fs, tpl, rd, sc, cmds>>

AnswerFramework ==
    /\ cli.pc = "framework"
    /\ \E framework \in {"nuxt", "vue"} :
        cli' = [cli EXCEPT !.pc = "styling", !.framework = framework]
    /\ UNCHANGED <<call, env, out, fs, tpl, rd, sc, cmds>>

AnswerStyling ==
    /\ cli.pc = "styling"
    /\ \E styling \in {"css", "sass"} :
        cli' = [cli EXCEPT !.pc = "port", !.styling = styling]
    /\ UNCHANGED <<call, env, out, fs, tpl, rd, sc, cmds>>

\* the port prompt of frontend i; accepting it ends the loop body
AnswerPort ==
    /\ cli.pc = "port"
    /\ \E value \in PortAnswers :
        IF validatePort(value, cli.usedPorts) # ""
        THEN Rejected(value, validatePort(value, cli.usedPorts))
        ELSE LET port ==
                    parseInt(TextResult(value, NumberToString(DefaultFrontendPort(cli.i))))
                 fe == [name |-> cli.serviceName, framework |-> cli.framework,
                        styling |-> cli.styling, port |-> port]
             IN  cli' = [cli EXCEPT
                            !.pc = IF cli.i + 1 < cli.frontendCount
                                   THEN "serviceName" ELSE "backendPort",
                            !.usedPorts = Append(@, port),
                            !.frontends = Append(@, fe),
                            !.i = cli.i + 1, !.promptError = ""]
    /\ UNCHANGED <<call, env, out, fs, tpl, rd, sc, cmds>>

AnswerBackendPort ==
    /\ cli.pc = "backendPort"
    /\ \E value \in PortAnswers :
        IF validatePort(value, cli.usedPorts) # ""
        THEN Rejected(value, validatePort(value, cli.usedPorts))
        ELSE LET backendPort == parseInt(TextResult(value, "3001"))
             IN  cli' = [cli EXCEPT !.pc = "dbName",
                            !.backendPort = backendPort,
                            !.usedPorts = Append(@, backendPort), !.promptError = ""]
    /\ UNCHANGED <<call, env, out, fs, tpl, rd, sc, cmds>>

AnswerDbName ==
    /\ cli.pc = "dbName"
    /\ \E value \in DbNameAnswers :
        IF validateRequired(value, "Name is required") # ""
        THEN Rejected(value, "Name is required")
        ELSE cli' = [cli EXCEPT !.pc = "dbUser", !.dbName = value, !.promptError = ""]
    /\ UNCHANGED <<call, env, out, fs, tpl, rd, sc, cmds>>

AnswerDbUser ==
    /\ cli.pc = "dbUser"
    /\ \E value \in DbUserAnswers :
        IF validateRequired(value, "User is required") # ""
        THEN Rejected(value, "User is required")
        ELSE cli' = [cli EXCEPT !.pc = "dbPassword", !.dbUser = value, !.promptError = ""]
    /\ UNCHANGED <<call, env, out, fs, tpl, rd, sc, cmds>>

\* accepting the password is followed by generateJwtSecret()
AnswerDbPassword ==
    /\ cli.pc = "dbPassword"
    /\ \E value \in PasswordAnswers, bytes \in randomBytes(32) :
        IF validatePassword(value) # ""
        THEN Rejected(value, validatePassword(value))
        ELSE cli' = [cli EXCEPT !.pc = "dbAdminTool", !.dbPassword = value,
                        !.jwtSecret = generateJwtSecret(bytes), !.promptError = ""]
    /\ UNCHANGED <<call, env, out, fs, tpl, rd, sc, cmds>>

\* the ProjectConfig runCli builds from its locals c and the dbAdmin option
BuildConfig(c, dbAdmin) ==
    [projectName |-> c.projectName, frontends |-> c.frontends,
     backendPort |-> c.backendPort, dbName |-> c.dbName, dbUser |-> c.dbUser,
     dbPassword |-> c.dbPassword, jwtSecret |-> c.jwtSecret, dbAdmin |-> dbAdmin]

AnswerDbAdminTool_noneAsRecord ==
    /\ cli.pc = "dbAdminTool"
    /\ \E tool \in {"none", "pgadmin", "adminer"} :
        IF tool # "none"
        THEN cli' = [cli EXCEPT !.pc = "dbAdminPort", !.dbAdminTool = tool]
        ELSE cli' = [cli EXCEPT !.pc = "confirm", !.dbAdminTool = tool,
                        !.dbAdmin = <<[tool |-> "none"]>>,
                        !.config = <<BuildConfig(cli, <<[tool |-> "none"]>>)>>]
    /\ UNCHANGED <<call, env, out, fs, tpl, rd, sc, cmds>>

AnswerDbAdminTool ==
    /\ cli.pc = "dbAdminTool"
    /\ \E tool \in {"none", "pgadmin", "adminer"} :
        IF tool # "none"
        THEN cli' = [cli EXCEPT !.pc = "dbAdminPort", !.dbAdminTool = tool]
        ELSE cli' = [cli EXCEPT !.pc = "confirm", !.dbAdminTool = tool,
                        !.dbAdmin = <<>>, !.config = <<BuildConfig(cli, <<>>)>>]
    /\ UNCHANGED <<call, env, out, fs, tpl, rd, sc, cmds>>

AnswerDbAdminPort ==
    /\ cli.pc = "dbAdminPort"
    /\ \E value \in PortAnswers :
        IF validatePort(value, cli.usedPorts) # ""
        THEN Rejected(value, validatePort(value, cli.usedPorts))
        ELSE LET dbAdminPort ==
                    parseInt(TextResult(value,
                        NumberToString(DefaultDbAdminPort(cli.dbAdminTool))))
                 dbAdmin == <<[tool |-> "adminer", port |-> dbAdminPort]>>
             IN  IF cli.dbAdminTool = "pgadmin"
                 THEN cli' = [cli EXCEPT !.pc = "pgAdminEmail",
                                 !.dbAdminPort = dbAdminPort,
                                 !.usedPorts = Append(@, dbAdminPort), !.promptError = ""]
                 ELSE cli' = [cli EXCEPT !.pc = "confirm",
                                 !.dbAdminPort = dbAdminPort,
                                 !.usedPorts = Append(@, dbAdminPort),
                                 !.dbAdmin = dbAdmin,
                                 !.config = <<BuildConfig(cli, dbAdmin)>>, !.promptError = ""]
    /\ UNCHANGED <<call, env, out, fs, tpl, rd, sc, cmds>>

AnswerPgAdminEmail ==
    /\ cli.pc = "pgAdminEmail"
    /\ \E value \in EmailAnswers :
        IF validateRequired(value, "Email is required") # ""
        THEN Rejected(value, "Email is required")
        ELSE cli' = [cli EXCEPT !.pc = "pgAdminPassword", !.pgAdminEmail = value, !.promptError = ""]
    /\ UNCHANGED <<call, env, out, fs, tpl, rd, sc, cmds>>

AnswerPgAdminPassword ==
    /\ cli.pc = "pgAdminPassword"
    /\ \E value \in PasswordAnswers :
        IF validatePassword(value) # ""
        THEN Rejected(value, validatePassword(value))
        ELSE LET dbAdmin == <<[tool |-> "pgadmin", port |-> cli.dbAdminPort,
                                email |-> cli.pgAdminEmail, password |-> value]>>
             IN  cli' = [cli EXCEPT !.pc = "confirm", !.dbAdmin = dbAdmin,
                            !.config = <<BuildConfig(cli, dbAdmin)>>, !.promptError = ""]
    /\ UNCHANGED <<call, env, out, fs, tpl, rd, sc, cmds>>

AnswerConfirm_ignoresNo ==
    /\ cli.pc = "confirm"
    /\ \E confirmRes \in BOOLEAN :
        /\ cli' = [cli EXCEPT !.pc = "scaffold"]
        /\ out' = IF ~confirmRes THEN Append(out, "outro: Generation cancelled.") ELSE out
    /\ UNCHANGED <<call, env, fs, tpl, rd, sc, cmds>>

\* the final confirmation: yes hands the config to scaffold, no returns
AnswerConfirm ==
    /\ cli.pc = "confirm"
    /\ \E confirmRes \in BOOLEAN :
        IF ~confirmRes
        THEN /\ cli' = [CliIdle EXCEPT !.pc = "returned"]
             /\ out' = Append(out, "outro: Generation cancelled.")
        ELSE /\ cli' = [cli EXCEPT !.pc = "scaffold"]
             /\ out' = out
    /\ UNCHANGED <<call, env, fs, tpl, rd, sc, cmds>>

(***************************************************************************)
(* Pure-function specification: one validator call on enumerated inputs    *)
(***************************************************************************)
\* candidate ports: the boundaries of the range, the reserved port, a
\* fractional number and NaN
PortInputs ==
    {NaN, Half(3000), Num(-1), Num(80), Num(1023), Num(1024), Num(3000),
     Num(5432), Num(65535), Num(65536)}

UsedPortInputs == {Num(1024), Num(3000), Num(5432), Num(65535)}

NameInputs ==
    {"", "app", "frontend", "frontend-1", "a1-b2", "backend", "db",
     "pgadmin", "adminer", "My-App", "a--b", "app-", "-app", "1app", "a_b",
     "my app"}

UsedNameInputs == {"backend", "db", "app", "frontend-1"}

SeqsUpTo(S, n) == UNION {[1..k -> S] : k \in 0..n}

ValidInit ==
    /\ env = [git |-> TRUE, docker |-> TRUE]
    /\ cli = CliIdle
    /\ out = <<>>
    /\ fs = EmptyFs
    /\ tpl = <<>>
    /\ rd = RdIdle
    /\ sc = ScIdle
    /\ cmds = <<>>
    /\ call \in
        {[fn |-> "isValidPort", port |-> p, used |-> u, result |-> "pending"] :
            p \in PortInputs, u \in SeqsUpTo(UsedPortInputs, MaxUsed)}
        \cup
        {[fn |-> "isValidServiceName", name |-> n, used |-> u, result |-> "pending"] :
            n \in NameInputs, u \in SeqsUpTo(UsedNameInputs, MaxUsed)}

CallIsValidPort ==
    /\ call.fn = "isValidPort"
    /\ call.result = "pending"
    /\ call' = [call EXCEPT !.result = isValidPort(call.port, call.used)]
    /\ UNCHANGED <<env, cli, out, fs, tpl, rd, sc, cmds>>

CallIsValidServiceName ==
    /\ call.fn = "isValidServiceName"
    /\ call.result = "pending"
    /\ call' = [call EXCEPT !.result = isValidServiceName(call.name, call.used)]
    /\ UNCHANGED <<env, cli, out, fs, tpl, rd, sc, cmds>>

ValidNext == CallIsValidPort \/ CallIsValidServiceName

SpecValid == ValidInit /\ [][ValidNext]_vars

(***************************************************************************)
(* utils/shell.ts: runCommand, checkCommand                                *)
(*                                                                         *)
(* The host of a call says whether the executable is found on the PATH,    *)
(* whether the file may be executed, whether the working directory exists  *)
(* and how a started process ends.  Node reports a missing working         *)
(* directory like a missing executable, with the code ENOENT.              *)
(***************************************************************************)
\* how a started process ends: its exit code, or the signal that killed it
ProcessEnds == {"0", "1", "128", "SIGTERM"}

RECURSIVE JoinArgs(_)
\* args.join(' ')
JoinArgs(args) ==
    IF args = <<>> THEN ""
    ELSE IF Len(args) = 1 THEN args[1]
    ELSE args[1] \o " " \o JoinArgs(Tail(args))

\* execa(command, args, {cwd}): how the promise settles
execa(host, command, args, cwd) ==
    IF ~host.located \/ ~host.cwdExists
        THEN [rejected |-> TRUE, code |-> "ENOENT", started |-> FALSE,
              shortMessage |-> "Command failed with ENOENT: " \o command
                               \o " " \o JoinArgs(args) \o "\nspawn " \o command \o " ENOENT"]
    ELSE IF ~host.executable
        THEN [rejected |-> TRUE, code |-> "EACCES", started |-> FALSE,
              shortMessage |-> "Command failed with EACCES: " \o command
                               \o " " \o JoinArgs(args) \o "\nspawn " \o command \o " EACCES"]
    ELSE IF host.end = "0"
        THEN [rejected |-> FALSE, code |-> "", started |-> TRUE, shortMessage |-> ""]
    ELSE IF host.end = "SIGTERM"
        THEN [rejected |-> TRUE, code |-> "", started |-> TRUE,
              shortMessage |-> "Command was killed with SIGTERM (Termination): "
                               \o command \o " " \o JoinArgs(args)]
    ELSE [rejected |-> TRUE, code |-> "", started |-> TRUE,
          shortMessage |-> "Command failed with exit code " \o host.end \o ": "
                           \o command \o " " \o JoinArgs(args)]

\* runCommand(command, args, cwd): "" when it returns, else the message of
\* the error it throws
runCommand(host, command, args, cwd) ==
    LET settled == execa(host, command, args, cwd)
    IN  IF ~settled.rejected THEN ""
        ELSE IF settled.code = "ENOENT"
        THEN "Command \"" \o command
             \o "\" not found. Make sure it is installed and available in your PATH."
        ELSE "Command \"" \o command \o " " \o JoinArgs(args) \o "\" failed: "
             \o settled.shortMessage

\* checkCommand(cmd): execa(cmd, ['--version']) in the current directory
checkCommand(host, cmd) ==
    ~execa([host EXCEPT !.cwdExists = TRUE], cmd, <<"--version">>, ".").rejected

(***************************************************************************)
(* Command specification: one runCommand or checkCommand call on           *)
(* enumerated hosts                                                        *)
(***************************************************************************)
Hosts ==
    [located : BOOLEAN, executable : BOOLEAN, cwdExists : BOOLEAN, end : ProcessEnds]

CommandInit ==
    /\ env = [git |-> TRUE, docker |-> TRUE]
    /\ cli = CliIdle
    /\ out = <<>>
    /\ fs = EmptyFs
    /\ tpl = <<>>
    /\ rd = RdIdle
    /\ sc = ScIdle
    /\ cmds = <<>>
    /\ call \in
        {[fn |-> "runCommand", host |-> h, command |-> c[1], args |-> c[2],
          cwd |-> "/w/demo", result |-> "pending"] :
            h \in Hosts, c \in {<<"git", <<"init">>>>, <<"npm", <<"install">>>>}}
        \cup
        {[fn |-> "checkCommand", host |-> h, command |-> c, args |-> <<"--version">>,
          cwd |-> ".", result |-> "pending"] :
            h \in {x \in Hosts : x.cwdExists}, c \in {"git", "docker"}}

CallRunCommand ==
    /\ call.fn = "runCommand"
    /\ call.result = "pending"
    /\ call' = [call EXCEPT !.result =
                    IF runCommand(call.host, call.command, call.args, call.cwd) = ""
                    THEN "returned"
                    ELSE "threw: " \o runCommand(call.host, call.command, call.args, call.cwd)]
    /\ UNCHANGED <<env, cli, out, fs, tpl, rd, sc, cmds>>

CallCheckCommand ==
    /\ call.fn = "checkCommand"
    /\ call.result = "pending"
    /\ call' = [call EXCEPT !.result =
                    IF checkCommand(call.host, call.command)
                    THEN "returned true" ELSE "returned false"]
    /\ UNCHANGED <<env, cli, out, fs, tpl, rd, sc, cmds>>

CommandNext == CallRunCommand \/ CallCheckCommand

SpecCommand == CommandInit /\ [][CommandNext]_vars

(***************************************************************************)
(* C15: the command runner                                                 *)
(***************************************************************************)
C15_NotFoundMessage(command) ==
    "threw: Command \"" \o command
    \o "\" not found. Make sure it is installed and available in your PATH."

C15_FailedPrefix(command, args) ==
    "threw: Command \"" \o command \o " " \o JoinArgs(args) \o "\" failed: "

\* C15: runCommand returns exactly when the process was started and exited
\* with code zero, fails with the command-not-found error when the
\* executable cannot be located and with the command-failed error in every
\* other failure case; checkCommand never throws and returns false on any
\* failure.
C15_RunCommandAsClaimed ==
    call.result # "pending" =>
        LET h == call.host
            ok == h.located /\ h.executable /\ h.cwdExists /\ h.end = "0"
            prefix == C15_FailedPrefix(call.command, call.args)
        IN  /\ call.fn = "runCommand" =>
                   /\ call.result = "returned" <=> ok
                   /\ ~h.located => call.result = C15_NotFoundMessage(call.command)
                   /\ (h.located /\ ~ok) =>
                          /\ Len(call.result) > Len(prefix)
                          /\ SubSeq(call.result, 1, Len(prefix)) = prefix
            /\ call.fn = "checkCommand" =>
                   /\ call.result \in {"returned true", "returned false"}
                   /\ call.result = "returned true" <=> ok

\* the case of C15: the executable is there, the working directory is not
C15_Witness ==
    /\ call.fn = "runCommand"
    /\ call.result # "pending"
    /\ call.host.located /\ call.host.executable /\ ~call.host.cwdExists

(***************************************************************************)
(* scaffolder.ts: scaffold                                                 *)
(***************************************************************************)
\* process.cwd() and getTemplatesDir()
Cwd == "/w"
TemplatesDir == "/t"

\* path.resolve(process.cwd(), config.projectName) for a plain name
ProjectDir(config) == PathJoin(Cwd, config.projectName)

BoolString(b) == IF b THEN "true" ELSE "false"

\* the data contexts scaffold hands to copyAndRenderDir
DataFrontend(fe) ==
    [fields |-> [name |-> fe.name, styling |-> fe.styling,
                 useShadcn |-> BoolString(fe.useShadcn)],
     hasFrontends |-> FALSE, frontends |-> <<>>]

DataBackend(config) ==
    [fields |-> [projectName |-> config.projectName,
                 backendPort |-> NumberToString(IntOf(config.backendPort))],
     hasFrontends |-> FALSE, frontends |-> <<>>]

DataRoot(config) ==
    [fields |-> [projectName |-> config.projectName,
                 backendPort |-> NumberToString(IntOf(config.backendPort)),
                 dbName |-> config.dbName, dbUser |-> config.dbUser,
                 dbPassword |-> config.dbPassword, jwtSecret |-> config.jwtSecret],
     hasFrontends |-> TRUE,
     frontends |-> [k \in 1..Len(config.frontends) |->
                       [name |-> config.frontends[k].name,
                        framework |-> config.frontends[k].framework,
                        styling |-> config.frontends[k].styling,
                        port |-> NumberToString(IntOf(config.frontends[k].port))]]]

RenderStep(templateDir, outputDir, data, start, stop) ==
    [kind |-> "render", templateDir |-> templateDir, outputDir |-> outputDir,
     data |-> data, start |-> start, stop |-> stop]

FrontendSteps_dirByFramework(config, fe) ==
    <<RenderStep(PathJoin(PathJoin(TemplatesDir, "frontend"), fe.framework),
                 PathJoin(ProjectDir(config), fe.framework), DataFrontend(fe),
                 "Generating " \o fe.name \o " (" \o fe.framework \o ")...",
                 fe.name \o " created")>>

FrontendSteps_overlayFirst(config, fe) ==
    LET outputDir == PathJoin(ProjectDir(config), fe.name)
        start == "Generating " \o fe.name \o " (" \o fe.framework \o ")..."
        stop == fe.name \o " created"
        base == PathJoin(PathJoin(TemplatesDir, "frontend"), fe.framework)
        overlay == PathJoin(PathJoin(TemplatesDir, "frontend"), "vue-shadcn")
    IN  IF fe.framework = "vue" /\ fe.useShadcn
        THEN <<RenderStep(overlay, outputDir, DataFrontend(fe), start, ""),
               RenderStep(base, outputDir, DataFrontend(fe), "", stop)>>
        ELSE <<RenderStep(base, outputDir, DataFrontend(fe), start, stop)>>

FrontendSteps_intoProjectDir(config, fe) ==
    <<RenderStep(PathJoin(PathJoin(TemplatesDir, "frontend"), fe.framework),
                 ProjectDir(config), DataFrontend(fe),
                 "Generating " \o fe.name \o " (" \o fe.framework \o ")...",
                 fe.name \o " created")>>

\* the copyAndRenderDir calls of one iteration of the frontend loop: the
\* framework's subtree, then vue-shadcn over it for a vue frontend with
\* useShadcn; the spinner starts before the first and stops after the last
FrontendSteps(config, fe) ==
    LET outputDir == PathJoin(ProjectDir(config), fe.name)
        start == "Generating " \o fe.name \o " (" \o fe.framework \o ")..."
        stop == fe.name \o " created"
        base == PathJoin(PathJoin(TemplatesDir, "frontend"), fe.framework)
        overlay == PathJoin(PathJoin(TemplatesDir, "frontend"), "vue-shadcn")
    IN  IF fe.framework = "vue" /\ fe.useShadcn
        THEN <<RenderStep(base, outputDir, DataFrontend(fe), start, ""),
               RenderStep(overlay, outputDir, DataFrontend(fe), "", stop)>>
        ELSE <<RenderStep(base, outputDir, DataFrontend(fe), start, stop)>>

RECURSIVE AllFrontendSteps(_, _)
AllFrontendSteps(config, frontends) ==
    IF frontends = <<>> THEN <<>>
    ELSE FrontendSteps(config, Head(frontends)) \o AllFrontendSteps(config, Tail(frontends))

BackendStep(config) ==
    RenderStep(PathJoin(PathJoin(TemplatesDir, "backend"), "nestjs"),
               PathJoin(ProjectDir(config), "backend"), DataBackend(config),
               "Generating backend (NestJS)...", "backend created")

RootStep(config) ==
    RenderStep(PathJoin(TemplatesDir, "root"), ProjectDir(config), DataRoot(config),
               "Generating root files...", "Root files created")

GitStep(config) ==
    [kind |-> "git", templateDir |-> "", outputDir |-> ProjectDir(config),
     data |-> <<>>, start |-> "Initializing git repository...",
     stop |-> "Git repository initialized"]

Plan_gitBeforeRoot(config) ==
    AllFrontendSteps(config, config.frontends)
    \o <<BackendStep(config), GitStep(config), RootStep(config)>>

\* the body of the try block after fs.ensureDir, in program order
Plan(config) ==
    AllFrontendSteps(config, config.frontends)
    \o <<BackendStep(config), RootStep(config), GitStep(config)>>

\* the locals of a scaffold run at its entry
ScEntry(config, options) ==
    [pc |-> "start", config |-> config, force |-> options.force,
     existed |-> FALSE, step |-> 0, files |-> <<>>, k |-> 0, error |-> "",
     spinner |-> <<>>]

Runs == DOMAIN sc

ScPathExists_ignoreForce(r) ==
    /\ sc[r].pc = "start"
    /\ LET existed == pathExists(fs, ProjectDir(sc[r].config))
       IN  sc' = [sc EXCEPT ![r] =
                [@ EXCEPT !.existed = existed,
                          !.pc = IF existed THEN "forceRemove" ELSE "ensureDir"]]
    /\ UNCHANGED <<call, env, cli, out, fs, tpl, rd, cmds>>

\* await fs.pathExists(projectDir), then the branch on options.force
ScPathExists(r) ==
    /\ sc[r].pc = "start"
    /\ LET existed == pathExists(fs, ProjectDir(sc[r].config))
       IN  sc' = [sc EXCEPT ![r] =
                IF existed /\ ~sc[r].force
                THEN [@ EXCEPT !.pc = "threw", !.existed = existed,
                        !.error = "Directory \"" \o sc[r].config.projectName
                                  \o "\" already exists. Use --force to overwrite."]
                ELSE [@ EXCEPT !.existed = existed,
                        !.pc = IF existed THEN "forceRemove" ELSE "ensureDir"]]
    /\ UNCHANGED <<call, env, cli, out, fs, tpl, rd, cmds>>

ScForceRemove_removesParent(r) ==
    /\ sc[r].pc = "forceRemove"
    /\ fs' = remove(fs, Dirname(ProjectDir(sc[r].config)))
    /\ sc' = [sc EXCEPT ![r].pc = "ensureDir"]
    /\ UNCHANGED <<call, env, cli, out, tpl, rd, cmds>>

ScForceRemove_keepsRoot(r) ==
    /\ sc[r].pc = "forceRemove"
    /\ fs' = fs
    /\ sc' = [sc EXCEPT ![r].pc = "ensureDir"]
    /\ UNCHANGED <<call, env, cli, out, tpl, rd, cmds>>

\* await fs.remove(projectDir) of the force branch
ScForceRemove(r) ==
    /\ sc[r].pc = "forceRemove"
    /\ fs' = remove(fs, ProjectDir(sc[r].config))
    /\ sc' = [sc EXCEPT ![r].pc = "ensureDir"]
    /\ UNCHANGED <<call, env, cli, out, tpl, rd, cmds>>

\* await fs.ensureDir(projectDir), the first statement of the try block
ScEnsureDir(r) ==
    /\ sc[r].pc = "ensureDir"
    /\ \E fault \in {"none", "write"} :
        LET projectDir == ProjectDir(sc[r].config)
        IN  IF fault = "write" \/ ensureDirBlocked(fs, projectDir)
            THEN /\ fs' = fs
                 /\ sc' = [sc EXCEPT ![r].pc = "catch",
                                     ![r].error = "EACCES: mkdir " \o projectDir]
            ELSE /\ fs' = ensureDir(fs, projectDir)
                 /\ sc' = [sc EXCEPT ![r].pc = "step", ![r].step = 1]
    /\ UNCHANGED <<call, env, cli, out, tpl, rd, cmds>>

\* the run after the copyAndRenderDir call of step s.step returned
ScStepDone(s) ==
    LET st == Plan(s.config)[s.step]
    IN  [s EXCEPT !.pc = "step", !.step = s.step + 1, !.files = <<>>, !.k = 0,
                  !.spinner = IF st.stop = "" THEN @ ELSE Append(@, "stop: " \o st.stop)]

\* s.start(...), then copyAndRenderDir is entered: await getAllFiles(templateDir)
ScStartRender(r) ==
    /\ sc[r].pc = "step"
    /\ Plan(sc[r].config)[sc[r].step].kind = "render"
    /\ LET st == Plan(sc[r].config)[sc[r].step]
           started == [sc[r] EXCEPT !.spinner =
                          IF st.start = "" THEN @ ELSE Append(@, "start: " \o st.start)]
       IN  sc' = [sc EXCEPT ![r] =
                IF st.templateDir \notin DOMAIN tpl
                THEN [started EXCEPT !.pc = "catch",
                                     !.error = "ENOENT: scandir " \o st.templateDir]
                ELSE IF getAllFiles(st.templateDir, tpl[st.templateDir]) = <<>>
                THEN ScStepDone(started)
                ELSE [started EXCEPT !.pc = "file", !.k = 1,
                        !.files = getAllFiles(st.templateDir, tpl[st.templateDir])]]
    /\ UNCHANGED <<call, env, cli, out, fs, tpl, rd, cmds>>

ScFile_swallowsError(r) ==
    /\ sc[r].pc = "file"
    /\ \E fault \in Faults :
        LET st == Plan(sc[r].config)[sc[r].step]
            res == ProcessFile(fs, st.templateDir, st.outputDir, st.data,
                               sc[r].files[sc[r].k], fault)
        IN  /\ fs' = res.fs
            /\ sc' = [sc EXCEPT ![r] =
                    IF sc[r].k = Len(sc[r].files) THEN ScStepDone(@)
                    ELSE [@ EXCEPT !.k = sc[r].k + 1]]
    /\ UNCHANGED <<call, env, cli, out, tpl, rd, cmds>>

\* one iteration of the loop of copyAndRenderDir inside scaffold
ScFile(r) ==
    /\ sc[r].pc = "file"
    /\ \E fault \in Faults :
        LET st == Plan(sc[r].config)[sc[r].step]
            res == ProcessFile(fs, st.templateDir, st.outputDir, st.data,
                               sc[r].files[sc[r].k], fault)
        IN  /\ fs' = res.fs
            /\ sc' = [sc EXCEPT ![r] =
                    IF res.error # ""
                    THEN [@ EXCEPT !.pc = "catch", !.error = res.error]
                    ELSE IF sc[r].k = Len(sc[r].files) THEN ScStepDone(@)
                    ELSE [@ EXCEPT !.k = sc[r].k + 1]]
    /\ UNCHANGED <<call, env, cli, out, tpl, rd, cmds>>

\* the error runCommand throws for a command that did not end with code zero
runCommandError(command, args, outcome) ==
    IF outcome = "ENOENT"
    THEN "Command \"" \o command
         \o "\" not found. Make sure it is installed and available in your PATH."
    ELSE "Command \"" \o command \o " " \o args
         \o "\" failed: Command failed with exit code 128"

\* runCommand('git', ['init'], cwd) as execa ends it: ENOENT when git or the
\* working directory is missing, else exit code zero or not
GitOutcomes(cwd) ==
    IF ~env.git \/ ~pathExists(fs, cwd) THEN {"ENOENT"} ELSE {"ok", "failed"}

\* s.start(...), await gitInit(projectDir), s.stop(...)
ScGitInit_thenNpmInstall(r) ==
    /\ sc[r].pc = "step"
    /\ Plan(sc[r].config)[sc[r].step].kind = "git"
    /\ \E outcome \in GitOutcomes(ProjectDir(sc[r].config)) :
        LET st == Plan(sc[r].config)[sc[r].step]
            projectDir == ProjectDir(sc[r].config)
            started == [sc[r] EXCEPT !.spinner = Append(@, "start: " \o st.start)]
        IN  /\ cmds' = cmds
                  \o <<[command |-> "git", args |-> <<"init">>,
                        cwd |-> projectDir, outcome |-> outcome]>>
                  \o (IF outcome = "ok"
                      THEN <<[command |-> "npm", args |-> <<"install">>,
                              cwd |-> projectDir, outcome |-> "ok"]>>
                      ELSE <<>>)
            /\ fs' = IF outcome = "ok"
                     THEN ensureDir(fs, PathJoin(projectDir, ".git")) ELSE fs
            /\ sc' = [sc EXCEPT ![r] =
                    IF outcome = "ok"
                    THEN [started EXCEPT !.pc = "done", !.step = sc[r].step + 1,
                                         !.spinner = Append(@, "stop: " \o st.stop)]
                    ELSE [started EXCEPT !.pc = "catch",
                                         !.error = runCommandError("git", "init", outcome)]]
    /\ UNCHANGED <<call, env, cli, out, tpl, rd>>

ScGitInit(r) ==
    /\ sc[r].pc = "step"
    /\ Plan(sc[r].config)[sc[r].step].kind = "git"
    /\ \E outcome \in GitOutcomes(ProjectDir(sc[r].config)) :
        LET st == Plan(sc[r].config)[sc[r].step]
            projectDir == ProjectDir(sc[r].config)
            started == [sc[r] EXCEPT !.spinner = Append(@, "start: " \o st.start)]
        IN  /\ cmds' = Append(cmds, [command |-> "git", args |-> <<"init">>,
                                     cwd |-> projectDir, outcome |-> outcome])
            /\ fs' = IF outcome = "ok"
                     THEN ensureDir(fs, PathJoin(projectDir, ".git")) ELSE fs
            /\ sc' = [sc EXCEPT ![r] =
                    IF outcome = "ok"
                    THEN [started EXCEPT !.pc = "done", !.step = sc[r].step + 1,
                                         !.spinner = Append(@, "stop: " \o st.stop)]
                    ELSE [started EXCEPT !.pc = "catch",
                                         !.error = runCommandError("git", "init", outcome)]]
    /\ UNCHANGED <<call, env, cli, out, tpl, rd>>

ScCatch_keepsExisting(r) ==
    /\ sc[r].pc = "catch"
    /\ sc' = [sc EXCEPT ![r].spinner = Append(@, "stop: Error"),
                        ![r].pc = IF pathExists(fs, ProjectDir(sc[r].config))
                                     /\ ~sc[r].existed
                                  THEN "catchRemove" ELSE "threw"]
    /\ UNCHANGED <<call, env, cli, out, fs, tpl, rd, cmds>>

ScCatch_replacesError(r) ==
    /\ sc[r].pc = "catch"
    /\ sc' = [sc EXCEPT ![r].spinner = Append(@, "stop: Error"),
                        ![r].error = "Scaffolding failed",
                        ![r].pc = IF pathExists(fs, ProjectDir(sc[r].config))
                                  THEN "catchRemove" ELSE "threw"]
    /\ UNCHANGED <<call, env, cli, out, fs, tpl, rd, cmds>>

\* the catch block: s.stop('Error'), await fs.pathExists(projectDir)
ScCatch(r) ==
    /\ sc[r].pc = "catch"
    /\ sc' = [sc EXCEPT ![r].spinner = Append(@, "stop: Error"),
                        ![r].pc = IF pathExists(fs, ProjectDir(sc[r].config))
                                  THEN "catchRemove" ELSE "threw"]
    /\ UNCHANGED <<call, env, cli, out, fs, tpl, rd, cmds>>

ScCatchRemove_skipRemove(r) ==
    /\ sc[r].pc = "catchRemove"
    /\ fs' = fs
    /\ sc' = [sc EXCEPT ![r].pc = "threw"]
    /\ UNCHANGED <<call, env, cli, out, tpl, rd, cmds>>

\* await fs.remove(projectDir), then throw error
ScCatchRemove(r) ==
    /\ sc[r].pc = "catchRemove"
    /\ fs' = remove(fs, ProjectDir(sc[r].config))
    /\ sc' = [sc EXCEPT ![r].pc = "threw"]
    /\ UNCHANGED <<call, env, cli, out, tpl, rd, cmds>>

(***************************************************************************)
(* Scaffold specification: one run on enumerated configs, options,         *)
(* templates and initial file systems                                      *)
(***************************************************************************)
FrontendSamples ==
    {[name |-> "app", framework |-> "nuxt", styling |-> "css",
      port |-> Num(3000), useShadcn |-> FALSE],
     [name |-> "web", framework |-> "vue", styling |-> "sass",
      port |-> Num(3010), useShadcn |-> TRUE],
     [name |-> "web", framework |-> "vue", styling |-> "css",
      port |-> Num(3010), useShadcn |-> FALSE]}

ConfigSamples ==
    {[projectName |-> "demo", frontends |-> f, backendPort |-> Num(3001),
      dbName |-> "demo_db", dbUser |-> "postgres", dbPassword |-> "s3cretpass",
      jwtSecret |-> "00ff", dbAdmin |-> <<>>] :
        f \in SeqsUpTo(FrontendSamples, MaxFrontends) \ {<<>>}}

\* the template directories of the package, and a package whose backend
\* template names a field its data context lacks and whose vue-shadcn
\* directory is missing
GoodTemplates ==
    [d \in {"/t/frontend/nuxt", "/t/frontend/vue", "/t/frontend/vue-shadcn",
            "/t/backend/nestjs", "/t/root"} |->
        CASE d = "/t/frontend/nuxt" ->
                <<File("package.json.ejs",
                       <<Lit("nuxt "), Var("name"), Lit(" "), Var("styling")>>),
                  File("gitignore", <<Lit(".nuxt")>>),
                  Dir("pages", <<File("index.vue", <<Lit("<template/>")>>)>>)>>
          [] d = "/t/frontend/vue" ->
                <<File("package.json.ejs", <<Lit("vue "), Var("name")>>),
                  Dir("src", <<File("App.vue", <<Lit("<template/>")>>)>>)>>
          [] d = "/t/frontend/vue-shadcn" ->
                <<File("components.json", <<Lit("{}")>>),
                  File("package.json.ejs",
                       <<Lit("vue-shadcn "), Var("name"), Lit(" "), Var("useShadcn")>>)>>
          [] d = "/t/backend/nestjs" ->
                <<File("package.json.ejs", <<Lit("nest "), Var("projectName")>>),
                  Dir("src", <<File("main.ts.ejs", <<Lit("listen "), Var("backendPort")>>),
                               File("app.controller.ts", <<Lit("@Controller()")>>)>>)>>
          [] OTHER ->
                <<File("docker-compose.yml.ejs",
                       <<Lit("services "), EachFrontend("name"), Lit(" backend "),
                         Var("backendPort"), Lit(" db "), Var("dbName")>>),
                  File("README.md.ejs", <<Lit("# "), Var("projectName")>>),
                  File("gitignore", <<Lit(".env")>>)>>]

BrokenTemplates ==
    [d \in DOMAIN GoodTemplates \ {"/t/frontend/vue-shadcn"} |->
        IF d = "/t/backend/nestjs"
        THEN <<File("package.json.ejs", <<Lit("nest "), Var("name")>>)>>
        ELSE GoodTemplates[d]]

\* the invocation directory before the run: the output root absent, present
\* and empty, or present with files of an earlier project; a sibling
\* directory is always there
OldContent == <<Lit("old")>>

InitialFileSystems ==
    LET base == [files |-> [p \in {"/w/keep/notes.txt"} |-> <<Lit("notes")>>],
                 dirs |-> {"/w", "/w/keep"}]
    IN  {base,
         [base EXCEPT !.dirs = @ \cup {"/w/demo"}],
         [files |-> [p \in {"/w/keep/notes.txt", "/w/demo/old.txt", "/w/demo/README.md",
                            "/w/demo/app/package.json"} |->
                        IF p = "/w/keep/notes.txt" THEN <<Lit("notes")>> ELSE OldContent],
          dirs |-> {"/w", "/w/keep", "/w/demo", "/w/demo/app"}]}

Init ==
    /\ call = NoCall
    /\ cli = CliIdle
    /\ out = <<>>
    /\ rd = RdIdle
    /\ cmds = <<>>
    /\ env \in {[git |-> TRUE, docker |-> TRUE], [git |-> FALSE, docker |-> TRUE]}
    /\ tpl \in {GoodTemplates, BrokenTemplates}
    /\ fs \in InitialFileSystems
    /\ \E config \in ConfigSamples, force \in BOOLEAN :
        sc = <<ScEntry(config, [force |-> force, verbose |-> FALSE])>>

Next ==
    \/ \E r \in Runs : ScPathExists(r)
    \/ \E r \in Runs : ScForceRemove(r)
    \/ \E r \in Runs : ScEnsureDir(r)
    \/ \E r \in Runs : ScStartRender(r)
    \/ \E r \in Runs : ScFile(r)
    \/ \E r \in Runs : ScGitInit(r)
    \/ \E r \in Runs : ScCatch(r)
    \/ \E r \in Runs : ScCatchRemove(r)

Spec == Init /\ [][Next]_vars

(***************************************************************************)
(* Render specification: copyAndRenderDir called twice on one template     *)
(* directory with one data context, each time into a fresh directory       *)
(***************************************************************************)
HarnessTemplateDir == "/t/x"
OutDir(n) == "/o" \o NumberToString(n)

\* template directories: every kind of file name the renderer tells apart,
\* files that map to one output name in both listing orders, a template
\* that cannot be rendered
TemplateDirSamples ==
    {<<File("package.json.ejs", <<Lit("name="), Var("name")>>),
       File("gitignore", <<Lit("node_modules")>>),
       Dir("src", <<File("main.ts", <<Lit("port "), Var("name")>>),
                    File("gitignore.ejs", <<Lit("dist-"), Var("styling")>>)>>),
       Dir("docs", <<File("gitignore", <<Lit("out")>>),
                     File("xgitignore", <<Lit("x")>>),
                     File("notes.ejs.ejs", <<Lit("n-"), Var("name")>>)>>)>>,
     <<File("a", <<Lit("static")>>), File("a.ejs", <<Lit("r-"), Var("name")>>)>>,
     <<File("a.ejs", <<Lit("r-"), Var("name")>>), File("a", <<Lit("static")>>)>>,
     <<File(".gitignore", <<Lit("dot")>>), File("gitignore", <<Lit("nodot")>>)>>,
     <<File("gitignore", <<Lit("nodot")>>), File(".gitignore", <<Lit("dot")>>)>>,
     <<File("ok.txt", <<Lit("ok")>>),
       File("bad.ejs", <<Lit("v="), Var("missing")>>),
       File("later.txt", <<Lit("later")>>)>>,
     <<>>}

DataSamples ==
    {[fields |-> [name |-> "app", styling |-> "css", useShadcn |-> "false"],
      hasFrontends |-> FALSE, frontends |-> <<>>],
     [fields |-> [name |-> "web", styling |-> "sass", useShadcn |-> "true"],
      hasFrontends |-> FALSE, frontends |-> <<>>]}

RenderInit ==
    /\ call = NoCall
    /\ env = [git |-> TRUE, docker |-> TRUE]
    /\ cli = CliIdle
    /\ out = <<>>
    /\ sc = ScIdle
    /\ cmds = <<>>
    /\ tpl \in {[d \in {HarnessTemplateDir} |-> t] : t \in TemplateDirSamples}
    /\ fs = [EmptyFs EXCEPT !.dirs = {OutDir(1), OutDir(2)}]
    /\ \E data \in DataSamples : rd = [RdIdle EXCEPT !.pc = "call", !.n = 1, !.data = data]

\* the end of a call: the second call follows the first
RdAfterCall(r) ==
    IF r.n = 1 THEN [r EXCEPT !.pc = "call", !.n = 2, !.files = <<>>, !.k = 0]
    ELSE [r EXCEPT !.pc = "done", !.files = <<>>, !.k = 0]

\* copyAndRenderDir is called: getAllFiles(templateDir)
RdCall ==
    /\ rd.pc = "call"
    /\ LET files == getAllFiles(HarnessTemplateDir, tpl[HarnessTemplateDir])
       IN  rd' = IF files = <<>> THEN RdAfterCall(rd)
                 ELSE [rd EXCEPT !.pc = "file", !.files = files, !.k = 1]
    /\ UNCHANGED <<call, env, cli, out, fs, tpl, sc, cmds>>

\* one iteration of the loop; an error ends the call
RdFile ==
    /\ rd.pc = "file"
    /\ \E fault \in Faults :
        LET res == ProcessFile(fs, HarnessTemplateDir, OutDir(rd.n), rd.data,
                               rd.files[rd.k], fault)
        IN  /\ fs' = res.fs
            /\ rd' = IF res.error # ""
                     THEN [rd EXCEPT !.pc = "threw", !.error = res.error]
                     ELSE IF rd.k = Len(rd.files) THEN RdAfterCall(rd)
                     ELSE [rd EXCEPT !.k = rd.k + 1]
    /\ UNCHANGED <<call, env, cli, out, tpl, sc, cmds>>

RenderNext == RdCall \/ RdFile

SpecRender == RenderInit /\ [][RenderNext]_vars

(***************************************************************************)
(* C9, C10: the renderer                                                   *)
(***************************************************************************)
\* the name rule of the claim, stated on the last component of the path:
\* X.ejs gives X, and a resulting name gitignore gives .gitignore
ExpectedOutputName(relativePath) ==
    LET i == LastSlash(relativePath, Len(relativePath))
        dirPart == SubSeq(relativePath, 1, i)
        base == SubSeq(relativePath, i + 1, Len(relativePath))
        stem == IF EndsWith(base, ".ejs") THEN SubSeq(base, 1, Len(base) - 4) ELSE base
    IN  dirPart \o (IF stem = "gitignore" THEN ".gitignore" ELSE stem)

ExpectedContent(file, data) ==
    IF EndsWith(file.filePath, ".ejs")
    THEN <<Lit(RenderText(file.content, data))>>
    ELSE file.content

\* a step that processed file rd.files[rd.k] without error wrote exactly one
\* file, at the expected path with the expected content
C9_FileStep ==
    (rd.pc = "file" /\ rd'.pc # "threw" /\ rd' # rd) =>
        LET file == rd.files[rd.k]
            outputPath == PathJoin(OutDir(rd.n),
                ExpectedOutputName(PathRelative(HarnessTemplateDir, file.filePath)))
        IN  /\ outputPath \in DOMAIN fs'.files
            /\ fs'.files[outputPath] = ExpectedContent(file, rd.data)
            /\ DOMAIN fs'.files = DOMAIN fs.files \cup {outputPath}
            /\ \A q \in DOMAIN fs.files : q # outputPath => fs'.files[q] = fs.files[q]

\* after a complete call, every template file that shares its output name
\* with no other has its expected content at its expected path, and the
\* output holds no file besides the expected paths
C9_AfterCall ==
    (rd.pc = "done" \/ (rd.pc \in {"call", "file"} /\ rd.n = 2)) =>
        LET files == getAllFiles(HarnessTemplateDir, tpl[HarnessTemplateDir])
            NameOf(k) == ExpectedOutputName(PathRelative(HarnessTemplateDir, files[k].filePath))
            tree == TreeOf(fs, OutDir(1))
        IN  /\ DOMAIN tree.files = {NameOf(k) : k \in 1..Len(files)}
            /\ \A k \in 1..Len(files) :
                   (\A j \in 1..Len(files) : j # k => NameOf(j) # NameOf(k)) =>
                       tree.files[NameOf(k)] = ExpectedContent(files[k], rd.data)

\* C9: copyAndRenderDir maps X.ext.ejs to the one output file X.ext holding
\* the rendering, maps gitignore at any depth to .gitignore in the same
\* directory with the same content, copies every other file unchanged under
\* its own relative path, and renames gitignore after stripping .ejs.
C9_SuffixRenameContract == [](C9_AfterCall) /\ [][C9_FileStep]_vars

\* witness of C9: a call completed on the directory that holds a rendered
\* file, gitignore at two depths, a plain file and gitignore.ejs
C9_Witness ==
    /\ rd.pc = "done"
    /\ PathJoin(OutDir(1), "package.json") \in DOMAIN fs.files
    /\ PathJoin(OutDir(1), ".gitignore") \in DOMAIN fs.files
    /\ PathJoin(OutDir(1), "docs/.gitignore") \in DOMAIN fs.files
    /\ PathJoin(OutDir(1), "src/.gitignore") \in DOMAIN fs.files
    /\ fs.files[PathJoin(OutDir(1), "src/.gitignore")] = <<Lit("dist-css")>>
    /\ fs.files[PathJoin(OutDir(1), "docs/xgitignore")] = <<Lit("x")>>

PathsAtOrUnder(root) ==
    {p \in fs.dirs \cup DOMAIN fs.files : p = root \/ IsUnder(p, root)}

DirectoryExistsMessage(config) ==
    "Directory \"" \o config.projectName \o "\" already exists. Use --force to overwrite."

\* the first step of a run that finds its output root and has no force
\* throws the directory-exists error and changes nothing else
C2_RejectStep ==
    \A r \in Runs :
        (sc[r].pc = "start" /\ ~sc[r].force /\ sc'[r] # sc[r]
         /\ pathExists(fs, ProjectDir(sc[r].config))) =>
            /\ sc'[r].pc = "threw"
            /\ sc'[r].error = DirectoryExistsMessage(sc[r].config)
            /\ sc'[r].spinner = <<>>
            /\ fs' = fs
            /\ cmds' = cmds

\* a rejected run has started no render step and no command, and takes no
\* further step
C2_Rejected ==
    \A r \in Runs :
        (sc[r].pc = "threw" /\ sc[r].existed /\ ~sc[r].force) =>
            /\ sc[r].step = 0
            /\ sc[r].spinner = <<>>
            /\ cmds = <<>>
            /\ fs \in InitialFileSystems
            /\ pathExists(fs, ProjectDir(sc[r].config))
            /\ ~ENABLED (ScPathExists(r) \/ ScForceRemove(r) \/ ScEnsureDir(r)
                         \/ ScStartRender(r) \/ ScFile(r) \/ ScGitInit(r)
                         \/ ScCatch(r) \/ ScCatchRemove(r))

\* C2: with the output root present and force false, scaffold raises the
\* directory-exists error and leaves the file system as it was: nothing is
\* created, modified or deleted, no template is rendered, git init is not run.
C2_ExistingRootUntouched == [](C2_Rejected) /\ [][C2_RejectStep]_vars

\* witness of C2: the run was rejected and the files of the earlier project
\* are still there
C2_Witness ==
    \E r \in Runs :
        /\ sc[r].pc = "threw"
        /\ sc[r].existed
        /\ ~sc[r].force
        /\ "/w/demo/old.txt" \in DOMAIN fs.files
        /\ fs.files["/w/demo/README.md"] = OldContent

\* the render steps the claim lists, in its order: per frontend in
\* declaration order the framework's subtree (and vue-shadcn over it), then
\* the backend, then the root-level files
ExpectedFrontendRenders(config, k) ==
    LET fe == config.frontends[k]
        o == "/w/" \o config.projectName \o "/" \o fe.name
    IN  <<[t |-> "/t/frontend/" \o fe.framework, o |-> o]>>
        \o (IF fe.framework = "vue" /\ fe.useShadcn
            THEN <<[t |-> "/t/frontend/vue-shadcn", o |-> o]>> ELSE <<>>)

RECURSIVE ExpectedRendersFrom(_, _)
ExpectedRendersFrom(config, k) ==
    IF k > Len(config.frontends)
    THEN <<[t |-> "/t/backend/nestjs", o |-> "/w/" \o config.projectName \o "/backend"],
           [t |-> "/t/root", o |-> "/w/" \o config.projectName]>>
    ELSE ExpectedFrontendRenders(config, k) \o ExpectedRendersFrom(config, k + 1)

ExpectedRenders(config) == ExpectedRendersFrom(config, 1)

\* the output paths of one render step
StepPaths(e) ==
    IF e.t \notin DOMAIN tpl THEN {}
    ELSE LET files == getAllFiles(e.t, tpl[e.t])
         IN  {PathJoin(e.o, ExpectedOutputName(PathRelative(e.t, files[j].filePath))) :
                  j \in 1..Len(files)}

\* during the try block: every earlier step is complete, the current step
\* has written the files before the current one, no later step has written
\* anything, and git init has not been started before the last render step
\* completed
C5_InOrder ==
    \A r \in Runs :
        sc[r].pc \in {"step", "file", "done"} =>
            LET e == ExpectedRenders(sc[r].config)
                n == sc[r].step
                Earlier == UNION {StepPaths(e[i]) : i \in 1..Len(e) \cap 1..(n - 1)}
                Current == IF sc[r].pc = "file"
                           THEN {PathJoin(e[n].o, ExpectedOutputName(
                                    PathRelative(e[n].t, sc[r].files[j].filePath))) :
                                    j \in 1..(sc[r].k - 1)}
                           ELSE {}
                Later == UNION {StepPaths(e[i]) : i \in n..Len(e)}
            IN  /\ n \in 1..(Len(e) + 2)
                /\ Earlier \subseteq DOMAIN fs.files
                /\ sc[r].pc = "file" =>
                       /\ n <= Len(e)
                       /\ sc[r].files = getAllFiles(e[n].t, tpl[e[n].t])
                       /\ Current \subseteq DOMAIN fs.files
                /\ (Later \ (Earlier \cup Current)) \cap DOMAIN fs.files = {}
                /\ (n <= Len(e)) => cmds = <<>>
                /\ (sc[r].pc = "done") <=> (n = Len(e) + 2)
                /\ (sc[r].pc = "done") => Len(cmds) = 1

\* git init is started only by a run whose render steps have all completed
C5_GitStep ==
    cmds' # cmds =>
        \E r \in Runs :
            /\ sc'[r] # sc[r]
            /\ sc[r].step = Len(ExpectedRenders(sc[r].config)) + 1
            /\ \A i \in 1..Len(ExpectedRenders(sc[r].config)) :
                   StepPaths(ExpectedRenders(sc[r].config)[i]) \subseteq DOMAIN fs.files
            /\ cmds' = Append(cmds, cmds'[Len(cmds')])
            /\ cmds'[Len(cmds')].command = "git"
            /\ cmds'[Len(cmds')].args = <<"init">>

\* C5: the steps of a run execute one after the other: the frontends in
\* declaration order, then the backend, then the root-level files, then git
\* init; a step starts only after the previous one completed and git init
\* only after every file of every render step has been written.
C5_StepsInSequence == [](C5_InOrder) /\ [][C5_GitStep]_vars

\* witness of C5: a run over two frontends, the second with the vue-shadcn
\* overlay, has completed all five render steps and git init
C5_Witness ==
    \E r \in Runs :
        /\ sc[r].pc = "done"
        /\ Len(ExpectedRenders(sc[r].config)) = 5
        /\ sc[r].config.frontends[1].name # sc[r].config.frontends[2].name
        /\ "/w/demo/.git" \in fs.dirs

\* the force removal leaves nothing at or below the output root, and the
\* root is created again only after it
C6_RemoveStep ==
    \A r \in Runs :
        (sc[r].pc = "forceRemove" /\ sc'[r] # sc[r]) =>
            /\ sc'[r].pc = "ensureDir"
            /\ {p \in fs'.dirs \cup DOMAIN fs'.files :
                   p = ProjectDir(sc[r].config) \/ IsUnder(p, ProjectDir(sc[r].config))} = {}
            /\ \A p \in DOMAIN fs.files :
                   ~IsUnder(p, ProjectDir(sc[r].config)) =>
                       p \in DOMAIN fs'.files /\ fs'.files[p] = fs.files[p]

\* after a successful run over an existing root every file below the root
\* is an output of one of this run's render steps, and none carries the
\* content the earlier project had
C6_OnlyThisRun ==
    \A r \in Runs :
        (sc[r].pc = "done" /\ sc[r].existed) =>
            /\ sc[r].force
            /\ \A p \in DOMAIN fs.files :
                   IsUnder(p, ProjectDir(sc[r].config)) =>
                       /\ \E i \in 1..Len(ExpectedRenders(sc[r].config)) :
                              p \in StepPaths(ExpectedRenders(sc[r].config)[i])
                       /\ fs.files[p] # OldContent
            /\ "/w/demo/old.txt" \notin DOMAIN fs.files

\* C6: with the output root present and force true, scaffold removes the
\* whole directory before it creates the root again, so after a successful
\* run the root holds only files of this run and none it held before.
C6_ForceReplacesRoot == [](C6_OnlyThisRun) /\ [][C6_RemoveStep]_vars

\* witness of C6: a forced run over the earlier project succeeded; the
\* paths the earlier project shared with this run hold this run's content
C6_Witness ==
    \E r \in Runs :
        /\ sc[r].pc = "done"
        /\ sc[r].existed
        /\ sc[r].force
        /\ {"/w/demo/README.md", "/w/demo/app/package.json"} \subseteq DOMAIN fs.files
        /\ fs.files["/w/demo/README.md"] = <<Lit("# demo")>>
        /\ fs.files["/w/demo/app/package.json"] = <<Lit("nuxt app css")>>

(***************************************************************************)
(* C11: the tree after a successful run                                    *)
(***************************************************************************)
\* every template file of directory t has its output under o, and those
\* outside the set `except` hold the expected content for `data`
RenderedInto(t, o, data, except) ==
    /\ t \in DOMAIN tpl
    /\ o \in fs.dirs
    /\ LET files == getAllFiles(t, tpl[t])
       IN  \A j \in 1..Len(files) :
               LET p == PathJoin(o, ExpectedOutputName(PathRelative(t, files[j].filePath)))
               IN  /\ p \in DOMAIN fs.files
                   /\ p \notin except => fs.files[p] = ExpectedContent(files[j], data)

\* C11: after a successful run the output root exists and holds, for every
\* frontend, a subdirectory of its name rendered from its framework's
\* template subtree, a backend subdirectory, the rendered root-level files,
\* and git init has been run in the output root.
C11_SuccessfulRunTree ==
    \A r \in Runs :
        sc[r].pc = "done" =>
            LET config == sc[r].config
                root == "/w/" \o config.projectName
                n == Len(config.frontends)
                fe(k) == config.frontends[k]
                \* paths a later step of the same run writes again
                Overlay(k) ==
                    IF fe(k).framework = "vue" /\ fe(k).useShadcn
                    THEN StepPaths([t |-> "/t/frontend/vue-shadcn",
                                    o |-> root \o "/" \o fe(k).name])
                    ELSE {}
                Again(k) ==
                    Overlay(k) \cup
                    UNION {StepPaths([t |-> "/t/frontend/" \o fe(j).framework,
                                      o |-> root \o "/" \o fe(j).name]) \cup Overlay(j) :
                               j \in (k + 1)..n}
            IN  /\ root \in fs.dirs
                /\ \A k \in 1..n :
                       RenderedInto("/t/frontend/" \o fe(k).framework,
                                    root \o "/" \o fe(k).name,
                                    DataFrontend(fe(k)), Again(k))
                /\ RenderedInto("/t/backend/nestjs", root \o "/backend",
                                DataBackend(config), {})
                /\ RenderedInto("/t/root", root, DataRoot(config), {})
                /\ cmds = <<[command |-> "git", args |-> <<"init">>,
                             cwd |-> root, outcome |-> "ok"]>>
                /\ (root \o "/.git") \in fs.dirs

\* witness of C11: a run over a nuxt and a plain vue frontend succeeded
C11_Witness ==
    \E r \in Runs :
        /\ sc[r].pc = "done"
        /\ Len(sc[r].config.frontends) = 2
        /\ sc[r].config.frontends[1].framework = "nuxt"
        /\ ~sc[r].config.frontends[2].useShadcn
        /\ {"/w/demo/app/.gitignore", "/w/demo/web/src/App.vue",
            "/w/demo/backend/src/main.ts", "/w/demo/docker-compose.yml"}
               \subseteq DOMAIN fs.files
        /\ fs.files["/w/demo/web/package.json"] = <<Lit("vue web")>>
        /\ fs.files["/w/demo/docker-compose.yml"]
               = <<Lit("services appweb backend 3001 db demo_db")>>

(***************************************************************************)
(* C12: the error a failed run propagates                                  *)
(***************************************************************************)
\* the errors the operation run r is about to perform can fail with
StepErrors(r) ==
    LET config == sc[r].config
        root == "/w/" \o config.projectName
        e == ExpectedRenders(config)
        n == sc[r].step
    IN  CASE sc[r].pc = "ensureDir" -> {"EACCES: mkdir " \o root}
          [] sc[r].pc = "step" /\ n <= Len(e) -> {"ENOENT: scandir " \o e[n].t}
          [] sc[r].pc = "step" /\ n > Len(e) ->
                {"Command \"git\" not found. Make sure it is installed and available in your PATH.",
                 "Command \"git init\" failed: Command failed with exit code 128"}
          [] sc[r].pc = "file" ->
                LET file == sc[r].files[sc[r].k]
                    p == PathJoin(e[n].o, ExpectedOutputName(PathRelative(e[n].t, file.filePath)))
                IN  {"EIO: read " \o file.filePath, "ENOSPC: write " \o p,
                     "ENOTDIR: mkdir " \o Dirname(p), "EISDIR: open " \o p,
                     "EISDIR: copy " \o p}
                    \cup (IF EndsWith(file.filePath, ".ejs")
                          THEN {TemplateError(file.content, Plan(config)[n].data)} \ {""}
                          ELSE {})
          [] OTHER -> {}

\* the error caught is an error of the step that failed
C12_CaughtStep ==
    \A r \in Runs :
        (sc[r].pc \notin {"catch", "catchRemove", "threw"} /\ sc'[r].pc = "catch") =>
            sc'[r].error \in StepErrors(r)

\* the catch block hands on the error it caught
C12_CatchStep ==
    \A r \in Runs :
        (sc[r].pc \in {"catch", "catchRemove"} /\ sc'[r] # sc[r]) =>
            /\ sc'[r].error = sc[r].error
            /\ sc'[r].pc \in {"catchRemove", "threw"}

\* a run that threw carries an error, and a run that has not failed none
C12_ErrorState ==
    \A r \in Runs :
        /\ sc[r].pc \in {"catch", "catchRemove", "threw"} => sc[r].error # ""
        /\ sc[r].pc \notin {"catch", "catchRemove", "threw"} => sc[r].error = ""

CliCallScaffold ==
    /\ cli.pc = "scaffold"
    /\ sc = ScIdle
    /\ sc' = <<ScEntry(cli.config[1], cli.options)>>
    /\ cli' = [cli EXCEPT !.pc = "awaitScaffold"]
    /\ UNCHANGED <<call, env, out, fs, tpl, rd, cmds>>

\* scaffold returned: the note, the outro, and runCli returns
CliScaffoldReturned ==
    /\ cli.pc = "awaitScaffold"
    /\ sc[1].pc = "done"
    /\ out' = out \o <<"note: cd " \o cli.config[1].projectName \o "\nmake up",
                       "outro: Project generated successfully!">>
    /\ cli' = [cli EXCEPT !.pc = "returned"]
    /\ UNCHANGED <<call, env, fs, tpl, rd, sc, cmds>>

\* scaffold threw: runCli has no handler, its promise rejects with the error
CliScaffoldThrew ==
    /\ cli.pc = "awaitScaffold"
    /\ sc[1].pc = "threw"
    /\ cli' = [cli EXCEPT !.pc = "threw", !.error = sc[1].error]
    /\ UNCHANGED <<call, env, out, fs, tpl, rd, sc, cmds>>

MainCatch_exitZero ==
    /\ cli.pc = "threw"
    /\ out' = Append(out, "error: \nError: " \o cli.error)
    /\ cli' = [cli EXCEPT !.pc = "exited", !.exitCode = 0]
    /\ UNCHANGED <<call, env, fs, tpl, rd, sc, cmds>>

\* the catch of the action: console.error, process.exit(1)
MainCatch ==
    /\ cli.pc = "threw"
    /\ out' = Append(out, "error: \nError: " \o cli.error)
    /\ cli' = [cli EXCEPT !.pc = "exited", !.exitCode = 1]
    /\ UNCHANGED <<call, env, fs, tpl, rd, sc, cmds>>

\* runCli returned: nothing is left to run and the process ends with code 0
MainEnd ==
    /\ cli.pc = "returned"
    /\ cli' = [cli EXCEPT !.pc = "exited", !.exitCode = 0]
    /\ UNCHANGED <<call, env, out, fs, tpl, rd, sc, cmds>>

ProcessInit ==
    /\ call = NoCall
    /\ out = <<>>
    /\ rd = RdIdle
    /\ cmds = <<>>
    /\ sc = ScIdle
    /\ env = [git |-> TRUE, docker |-> TRUE]
    /\ tpl \in {GoodTemplates, BrokenTemplates}
    /\ fs \in InitialFileSystems
    /\ \E config \in ConfigSamples, force \in BOOLEAN :
        cli = [CliIdle EXCEPT !.pc = "scaffold", !.config = <<config>>,
                              !.options = [force |-> force, verbose |-> FALSE]]

ProcessNext ==
    \/ CliCallScaffold
    \/ \E r \in Runs : ScPathExists(r)
    \/ \E r \in Runs : ScForceRemove(r)
    \/ \E r \in Runs : ScEnsureDir(r)
    \/ \E r \in Runs : ScStartRender(r)
    \/ \E r \in Runs : ScFile(r)
    \/ \E r \in Runs : ScGitInit(r)
    \/ \E r \in Runs : ScCatch(r)
    \/ \E r \in Runs : ScCatchRemove(r)
    \/ CliScaffoldReturned
    \/ CliScaffoldThrew
    \/ MainCatch
    \/ MainEnd

SpecProcess == ProcessInit /\ [][ProcessNext]_vars

(***************************************************************************)
(* Collection specification: runCli from its entry to the call of scaffold *)
(* or to the end of the process                                            *)
(***************************************************************************)
CliInit ==
    /\ call = NoCall
    /\ env \in [git : BOOLEAN, docker : BOOLEAN]
    /\ cli = [CliIdle EXCEPT !.pc = "start"]
    /\ out = <<>>
    /\ fs = EmptyFs
    /\ tpl = <<>>
    /\ rd = RdIdle
    /\ sc = ScIdle
    /\ cmds = <<>>

CliNext ==
    \/ CliStart
    \/ CliCancel
    \/ AnswerProjectName
    \/ AnswerFrontendCount
    \/ AnswerServiceName
    \/ AnswerFramework
    \/ AnswerStyling
    \/ AnswerPort
    \/ AnswerBackendPort
    \/ AnswerDbName
    \/ AnswerDbUser
    \/ AnswerDbPassword
    \/ AnswerDbAdminTool
    \/ AnswerDbAdminPort
    \/ AnswerPgAdminEmail
    \/ AnswerPgAdminPassword
    \/ AnswerConfirm
    \/ CliCallScaffold
    \/ MainCatch
    \/ MainEnd

SpecCli == CliInit /\ [][CliNext]_vars

(***************************************************************************)
(* C13: the exit code                                                      *)
(***************************************************************************)
\* the step that ends the process with a non-zero code comes after the run
\* threw, with the cleanup over, and emits the message of the error
C13_ExitStep ==
    (cli'.exitCode # cli.exitCode) =>
        /\ cli'.pc = "exited"
        /\ cli'.exitCode \in {0, 1}
        /\ fs' = fs
        /\ cli'.exitCode = 1 =>
               /\ sc[1].pc = "threw"
               /\ out' = Append(out, "error: \nError: " \o sc[1].error)
               /\ sc[1].existed /\ ~sc[1].force
                      => sc[1].error = DirectoryExistsMessage(sc[1].config)
               /\ ~(sc[1].existed /\ ~sc[1].force)
                      => PathsAtOrUnder(ProjectDir(sc[1].config)) = {}
        /\ cli'.exitCode = 0 => sc[1].pc = "done"

\* the process ends only by one of these exits, and a run that threw never
\* ends with code 0 nor a successful run with another code
C13_ExitState ==
    /\ cli.pc = "exited" =>
           /\ sc # ScIdle
           /\ sc[1].pc = "threw" <=> cli.exitCode = 1
           /\ sc[1].pc = "done" <=> cli.exitCode = 0
    /\ cli.pc # "exited" =>
           /\ cli.exitCode = -1
           \* the flow is at a point from which its next statement runs
           /\ \/ cli.pc = "scaffold" /\ sc = ScIdle
              \/ /\ cli.pc = "awaitScaffold"
                 /\ sc[1].pc \in {"start", "forceRemove", "ensureDir", "step", "file",
                                  "catch", "catchRemove", "threw", "done"}
                 /\ sc[1].pc = "step" => sc[1].step \in 1..Len(Plan(sc[1].config))
                 /\ sc[1].pc = "file" => sc[1].k \in 1..Len(sc[1].files)
              \/ cli.pc = "threw" /\ sc[1].pc = "threw" /\ cli.error = sc[1].error
              \/ cli.pc = "returned" /\ sc[1].pc = "done"

C14_PreflightState ==
    /\ ~env.git =>
           /\ cli.pc \in {"start", "threw", "exited"}
           /\ cli.pc # "start" =>
                  cli.error = "git is required but was not found. Please install git before continuing."
           /\ cli.pc = "exited" => cli.exitCode = 1
           /\ cli.promptError = ""
           /\ sc = ScIdle /\ fs = EmptyFs /\ cmds = <<>>
           /\ \A k \in 1..Len(out) : out[k] = "error: \nError: " \o cli.error
    /\ (env.git /\ cli.pc # "start") =>
           /\ ~(cli.pc = "threw")
           /\ env.docker => \A k \in 1..Len(out) : out[k] # "warn: docker not found"
           /\ ~env.docker =>
                  /\ out # <<>> /\ out[1] = "warn: docker not found"
                  /\ \A k \in 2..Len(out) : out[k] # "warn: docker not found"

\* the check itself: with git the first prompt opens, whatever docker is
C14_PreflightStep ==
    (cli.pc = "start" /\ cli' # cli) =>
        /\ env.git => cli'.pc = "projectName"
        /\ ~env.git => cli'.pc = "threw" /\ out' = out
        /\ UNCHANGED <<fs, sc, cmds>>

\* C14: if git is not available runCli fails before any prompt is asked and
\* before any file or directory is written; if docker is not available only
\* a warning is emitted and the run continues.
C14_Preflight == [](C14_PreflightState) /\ [][C14_PreflightStep]_vars

\* witness of C14: without git the run has failed at the check
C14_Witness ==
    /\ ~env.git
    /\ ~env.docker
    /\ cli.pc = "threw"
    /\ out = <<>>

(***************************************************************************)
(* C3, C4: the accumulators of the collection flow                         *)
(***************************************************************************)
\* the ports runCli has accepted so far, in the order of acceptance
AcceptedPorts ==
    [k \in 1..Len(cli.frontends) |-> cli.frontends[k].port]
    \o (IF cli.backendPort = NaN THEN <<>> ELSE <<cli.backendPort>>)
    \o (IF cli.dbAdminPort = NaN THEN <<>> ELSE <<cli.dbAdminPort>>)

\* the prompts and program points at which the accumulators exist
AfterCount == (CliPrompts \ {"projectName", "frontendCount"}) \cup {"scaffold"}

C3_PortsState ==
    cli.pc \in AfterCount =>
        LET u == cli.usedPorts
        IN  /\ u = <<Num(5432)>> \o AcceptedPorts
            /\ \A j, k \in 1..Len(u) : j # k => u[j] # u[k]
            /\ \A k \in 2..Len(u) :
                   /\ ~u[k].nan
                   /\ u[k].h % 2 = 0
                   /\ 1024 <= u[k].h \div 2
                   /\ u[k].h \div 2 <= 65535
                   /\ u[k].h \div 2 # 5432
            /\ cli.config # <<>> =>
                   /\ cli.config[1].backendPort = cli.backendPort
                   /\ cli.config[1].frontends = cli.frontends
                   /\ cli.config[1].dbAdmin # <<>> =>
                          cli.config[1].dbAdmin[1].port = cli.dbAdminPort

C3_PortsStep ==
    cli'.usedPorts # cli.usedPorts =>
        \/ cli.pc = "frontendCount" /\ cli'.usedPorts = <<Num(5432)>>
        \/ cli'.pc = "exited" /\ cli'.usedPorts = <<>>
        \/ cli'.pc = "returned" /\ cli'.usedPorts = <<>>
        \/ /\ cli.pc \in {"port", "backendPort", "dbAdminPort"}
           /\ Includes(cli.usedPorts, Num(5432))
           /\ \E value \in PortAnswers :
                 /\ cli'.usedPorts = Append(cli.usedPorts, parseInt(value))
                 /\ isValidPort(parseInt(value), cli.usedPorts) = ValidOk

\* C3: in the collection flow the accepted ports (frontend ports, backendPort,
\* the dbAdmin port) are pairwise distinct, lie in 1024..65535 and differ from
\* 5432; the accumulator holds 5432 before the first port is validated and
\* grows only by a port isValidPort accepted against the accumulator of
\* that moment.
C3_AcceptedPortsConsistent == [](C3_PortsState) /\ [][C3_PortsStep]_vars

\* witness of C3: two frontend ports, the backend port and a dbAdmin port
\* were all accepted, the last one after the prompt had shown a problem
C3_Witness ==
    /\ cli.pc = "confirm"
    /\ Len(cli.frontends) = 2
    /\ cli.dbAdmin # <<>>
    /\ Len(cli.usedPorts) = 5

\* C4: in the collection flow no two frontends share a name and no frontend
\* name is one of backend, db, pgadmin, adminer, in every state of the flow
\* and in the config handed to scaffold.
C4_FrontendNamesConsistent ==
    LET Distinct(fes) ==
            /\ \A j, k \in 1..Len(fes) : j # k => fes[j].name # fes[k].name
            /\ \A k \in 1..Len(fes) :
                   fes[k].name \notin {"backend", "db", "pgadmin", "adminer"}
    IN  /\ Distinct(cli.frontends)
        /\ cli.pc \in {"framework", "styling", "port"} =>
               /\ cli.serviceName \notin {"backend", "db", "pgadmin", "adminer"}
               /\ \A k \in 1..Len(cli.frontends) : cli.frontends[k].name # cli.serviceName
        /\ cli.config # <<>> => Distinct(cli.config[1].frontends)

\* witness of C4: a config with two frontends reached the hand-over to scaffold
C4_Witness ==
    /\ cli.pc = "scaffold"
    /\ Len(cli.config[1].frontends) = 2

(***************************************************************************)
(* C7, C8: the validators                                                  *)
(***************************************************************************)
\* the reasons a validator can return
PortReasons(port) ==
    {"Port must be an integer", "Port must be between 1024 and 65535",
     "Port 5432 is reserved for PostgreSQL"}
    \cup (IF NumberIsInteger(port) /\ port.h >= 0
          THEN {"Port " \o NumberToString(IntOf(port)) \o " is already in use"} ELSE {})

NameReasons(name) ==
    {"Service name is required", "Name must be in kebab-case (e.g. my-frontend)",
     "Name \"" \o name \o "\" is reserved", "Name \"" \o name \o "\" is already taken"}

\* kebab-case, stated on the characters: lower-case letters, digits and
\* hyphens only, a letter first, no hyphen last, no two hyphens in a row
IsKebabCase(s) ==
    /\ Len(s) >= 1
    /\ \A k \in 1..Len(s) : IsLowerOrDigit(CharAt(s, k)) \/ CharAt(s, k) = "-"
    /\ IsLower(CharAt(s, 1))
    /\ CharAt(s, Len(s)) # "-"
    /\ \A k \in 1..(Len(s) - 1) : ~(CharAt(s, k) = "-" /\ CharAt(s, k + 1) = "-")

\* C7: isValidPort(port, usedPorts) answers valid exactly when port is an
\* integer in 1024..65535, is not 5432 and is not an element of usedPorts;
\* otherwise it answers one of its reason strings (it has no third outcome).
C7_IsValidPortExact ==
    (call.fn = "isValidPort" /\ call.result # "pending") =>
        LET p == call.port
            u == call.used
            ok == /\ ~p.nan
                  /\ p.h % 2 = 0
                  /\ 1024 <= p.h \div 2
                  /\ p.h \div 2 <= 65535
                  /\ p.h \div 2 # 5432
                  /\ \A k \in 1..Len(u) : u[k] # p
        IN  /\ (call.result = ValidOk) <=> ok
            /\ ~ok => call.result \in PortReasons(p)
            /\ (p = Num(5432) /\ u = <<>>) => call.result # ValidOk
            /\ (p = Num(3000) /\ u = <<Num(3000)>>) => call.result # ValidOk
            /\ (p = Num(80) /\ u = <<>>) => call.result # ValidOk
            /\ (p = Num(3000) /\ u = <<>>) => call.result = ValidOk

\* witness of C7: the lowest port of the range was accepted against a
\* non-empty accumulator
C7_Witness ==
    /\ call.fn = "isValidPort"
    /\ call.port = Num(1024)
    /\ Len(call.used) = MaxUsed
    /\ call.result = ValidOk

\* C8: isValidServiceName(name, usedNames) answers valid exactly when name is
\* non-empty, kebab-case, not one of backend, db, pgadmin, adminer and not an
\* element of usedNames; otherwise it answers one of its reason strings.
C8_IsValidServiceNameExact ==
    (call.fn = "isValidServiceName" /\ call.result # "pending") =>
        LET n == call.name
            u == call.used
            ok == /\ n # ""
                  /\ IsKebabCase(n)
                  /\ n \notin {"backend", "db", "pgadmin", "adminer"}
                  /\ \A k \in 1..Len(u) : u[k] # n
        IN  /\ (call.result = ValidOk) <=> ok
            /\ ~ok => call.result \in NameReasons(n)

\* witness of C8: a hyphenated name was accepted against a non-empty accumulator
C8_Witness ==
    /\ call.fn = "isValidServiceName"
    /\ call.name = "frontend-1"
    /\ Len(call.used) = MaxUsed
    /\ call.result = ValidOk

(***************************************************************************)
(* C16: the number of frontends                                            *)
(***************************************************************************)
\* answers to the count prompt the validator is probed with
C16_CountProbes ==
    {"0", "1", "2", "3", "4", "5", "6", "10", "-1", "2x", "5.9", " 3", "abc", ""}

\* the count prompt accepts exactly the answers that parse to 1..5; the
\* loop collects one frontend per iteration up to the accepted count; the
\* config handed to scaffold has that many
C16_CountState ==
    /\ \A v \in C16_CountProbes :
           validateFrontendCount(v) = "" <=>
               (~isNaN(parseInt(v)) /\ IntOf(parseInt(v)) \in 1..5)
    /\ cli.pc \in AfterCount \cup {"awaitScaffold"} =>
           /\ cli.frontendCount \in 1..5
           /\ cli.i = Len(cli.frontends)
           /\ Len(cli.frontends) <= cli.frontendCount
           /\ cli.pc \in {"serviceName", "framework", "styling", "port"}
                  <=> Len(cli.frontends) < cli.frontendCount
    /\ sc # ScIdle =>
           /\ cli.pc = "awaitScaffold"
           /\ Len(sc[1].config.frontends) = cli.frontendCount
           /\ Len(sc[1].config.frontends) \in 1..5
           /\ sc[1].config.frontends = cli.frontends

\* the step that accepts an answer to the count prompt keeps its value
C16_CountStep ==
    (cli.pc = "frontendCount" /\ cli'.pc = "serviceName") =>
        /\ cli'.frontendCount \in 1..5
        /\ \E v \in CountAnswers : cli'.frontendCount = IntOf(parseInt(v))
        /\ cli'.frontends = <<>>

\* C16: every ProjectConfig the collection flow hands to scaffold has
\* between 1 and 5 frontends, as many as the accepted answer to the count
\* prompt says.
C16_FrontendCount == [](C16_CountState) /\ [][C16_CountStep]_vars

\* witness of C16: scaffold has been called with two frontends after the
\* answer two
C16_Witness ==
    /\ sc # ScIdle
    /\ cli.frontendCount = 2
    /\ Len(sc[1].config.frontends) = 2
    /\ sc[1].config.frontends[1].name # sc[1].config.frontends[2].name

(***************************************************************************)
(* utils/validation.ts: generatePassword                                   *)
(***************************************************************************)
Base64UrlChars == "ABCDEFGHIJKLMNOPQRSTUVWXYZabcdefghijklmnopqrstuvwxyz0123456789-_"

\* the digit of the base64url alphabet for a six-bit value
Base64UrlDigit(v) == CharAt(Base64UrlChars, v + 1)

\* Buffer.toString('base64url'): four digits for every three bytes, two digits
\* for one byte left over, three digits for two bytes left over, no padding
RECURSIVE base64url(_)
base64url(bytes) ==
    IF Len(bytes) = 0 THEN ""
    ELSE IF Len(bytes) = 1 THEN
        Base64UrlDigit(bytes[1] \div 4) \o Base64UrlDigit((bytes[1] % 4) * 16)
    ELSE IF Len(bytes) = 2 THEN
        Base64UrlDigit(bytes[1] \div 4)
        \o Base64UrlDigit((bytes[1] % 4) * 16 + (bytes[2] \div 16))
        \o Base64UrlDigit((bytes[2] % 16) * 4)
    ELSE
        Base64UrlDigit(bytes[1] \div 4)
        \o Base64UrlDigit((bytes[1] % 4) * 16 + (bytes[2] \div 16))
        \o Base64UrlDigit((bytes[2] % 16) * 4 + (bytes[3] \div 64))
        \o Base64UrlDigit(bytes[3] % 64)
        \o base64url(SubSeq(bytes, 4, Len(bytes)))

\* string.slice(0, end) for an end that is a non-negative integer
SliceTo(s, end) == IF end < Len(s) THEN SubSeq(s, 1, end) ELSE s

\* generatePassword(length) applied to the bytes crypto.randomBytes returned
generatePassword_noSlice(length, bytes) == base64url(bytes)
generatePassword(length, bytes) == SliceTo(base64url(bytes), length)

\* the default of the length parameter
DefaultPasswordLength == 16

\* the lengths requested: the short ones and the default every call site uses
PasswordLengths == (0..MaxPasswordLength) \cup {DefaultPasswordLength}

\* bytes crypto.randomBytes(length) may return: every sequence over three
\* sample bytes for the short lengths, the constant sequences for the default
PasswordByteSamples == {0, 77, 255}
PasswordBytes(length) ==
    IF length <= MaxPasswordLength THEN [1..length -> PasswordByteSamples]
    ELSE randomBytes(length)

PasswordInit ==
    /\ env = [git |-> TRUE, docker |-> TRUE]
    /\ cli = CliIdle
    /\ out = <<>>
    /\ fs = EmptyFs
    /\ tpl = <<>>
    /\ rd = RdIdle
    /\ sc = ScIdle
    /\ cmds = <<>>
    /\ call \in {[fn |-> "generatePassword", length |-> n, bytes |-> <<>>,
                  result |-> "", returned |-> FALSE] : n \in PasswordLengths}

CallGeneratePassword ==
    /\ call.fn = "generatePassword"
    /\ ~call.returned
    /\ \E bytes \in PasswordBytes(call.length) :
        call' = [call EXCEPT !.bytes = bytes,
                             !.result = generatePassword(call.length, bytes),
                             !.returned = TRUE]
    /\ UNCHANGED <<env, cli, out, fs, tpl, rd, sc, cmds>>

PasswordNext == CallGeneratePassword

SpecPassword == PasswordInit /\ [][PasswordNext]_vars

\* C17: generatePassword(length) returns a string of exactly length characters
\* for every length >= 0: the base64url encoding of the length random bytes
\* has at least length characters before it is cut
C17_ExactLength ==
    (call.fn = "generatePassword" /\ call.returned) =>
        /\ Len(call.bytes) = call.length
        /\ Len(base64url(call.bytes)) >= call.length
        /\ Len(call.result) = call.length
        /\ call.result = SubSeq(base64url(call.bytes), 1, call.length)

\* a call returned a password that is a proper prefix of the encoding
C17_Witness ==
    /\ call.fn = "generatePassword"
    /\ call.returned
    /\ call.length = DefaultPasswordLength
    /\ Len(base64url(call.bytes)) > call.length
    /\ call.result = "________________"

(***************************************************************************)
(* C18: the dbAdmin option of the config                                   *)
(***************************************************************************)
\* the dbAdmin option is absent, or an adminer record without credentials,
\* or a pgadmin record with both of them
C18_Shape(config) ==
    config.dbAdmin # <<>> =>
        /\ Len(config.dbAdmin) = 1
        /\ "tool" \in DOMAIN config.dbAdmin[1]
        /\ "port" \in DOMAIN config.dbAdmin[1]
        /\ config.dbAdmin[1].tool \in {"pgadmin", "adminer"}
        /\ "email" \in DOMAIN config.dbAdmin[1] <=> config.dbAdmin[1].tool = "pgadmin"
        /\ "password" \in DOMAIN config.dbAdmin[1] <=> config.dbAdmin[1].tool = "pgadmin"

\* the dbAdmin option agrees with the tool chosen at the prompt
C18_Chosen(config) ==
    /\ cli.dbAdminTool \in {"none", "pgadmin", "adminer"}
    /\ config.dbAdmin = <<>> <=> cli.dbAdminTool = "none"
    /\ config.dbAdmin # <<>> => config.dbAdmin[1].tool = cli.dbAdminTool

\* C18: in every ProjectConfig the collection flow builds, dbAdmin is absent
\* exactly when the chosen tool is none; when present its tool is pgadmin or
\* adminer, and email and password are present exactly when it is pgadmin.
C18_DbAdminConsistent ==
    /\ cli.config # <<>> => C18_Shape(cli.config[1]) /\ C18_Chosen(cli.config[1])
    /\ sc # ScIdle => C18_Shape(sc[1].config)
    /\ (sc # ScIdle /\ cli.pc = "awaitScaffold") => C18_Chosen(sc[1].config)

\* witness of C18: scaffold has been called with a pgadmin option that
\* carries the email and the password typed at the prompts
C18_Witness ==
    /\ sc # ScIdle
    /\ cli.pc = "awaitScaffold"
    /\ cli.dbAdminTool = "pgadmin"
    /\ sc[1].config.dbAdmin # <<>>
    /\ sc[1].config.dbAdmin[1].tool = "pgadmin"
    /\ sc[1].config.dbAdmin[1].email = cli.pgAdminEmail
    /\ sc[1].config.dbAdmin[1].email # ""
    /\ Len(sc[1].config.dbAdmin[1].password) >= 8

(***************************************************************************)
(* C19: a file that fails to render stops the run                          *)
(***************************************************************************)
\* a run whose try block has been left by an error
C19_Failed(r) == sc[r].pc \in {"catch", "catchRemove", "threw"}

\* one iteration of the loop of copyAndRenderDir either processes its file
\* and goes on, or fails and leaves the loop and the try block with the very
\* error the file failed with
C19_FileStep ==
    \A r \in Runs :
        (sc[r].pc = "file" /\ sc'[r] # sc[r]) =>
            \E fault \in Faults :
                LET st == Plan(sc[r].config)[sc[r].step]
                    res == ProcessFile(fs, st.templateDir, st.outputDir, st.data,
                                       sc[r].files[sc[r].k], fault)
                IN  /\ fs' = res.fs
                    /\ IF res.error # ""
                       THEN /\ sc'[r].pc = "catch"
                            /\ sc'[r].error = res.error
                            /\ sc'[r].step = sc[r].step
                            /\ sc'[r].k = sc[r].k
                            /\ sc'[r].files = sc[r].files
                       ELSE /\ sc'[r].pc \in {"file", "step"}
                            /\ sc'[r].error = ""

\* after the failure no file is processed, no step is started and no command
\* is run: the run only stops its spinner and removes the output root
C19_AfterFailureStep ==
    \A r \in Runs :
        C19_Failed(r) =>
            /\ sc'[r].pc \in {"catch", "catchRemove", "threw"}
            /\ sc'[r].step = sc[r].step
            /\ sc'[r].k = sc[r].k
            /\ sc'[r].files = sc[r].files
            /\ sc'[r].error = sc[r].error
            /\ sc'[r].spinner \in {sc[r].spinner, Append(sc[r].spinner, "stop: Error")}
            /\ cmds' = cmds
            /\ fs'.dirs \subseteq fs.dirs
            /\ DOMAIN fs'.files \subseteq DOMAIN fs.files
            /\ \A p \in DOMAIN fs'.files : fs'.files[p] = fs.files[p]

\* C19: when rendering one file fails inside copyAndRenderDir, the failure
\* leaves copyAndRenderDir unchanged, no later file of that template
\* directory is rendered or copied, and scaffold starts no further step.
C19_BrokenFileStopsRun == [][C19_FileStep /\ C19_AfterFailureStep]_vars

\* witness of C19: a run has thrown the error of a file of its first render
\* step while files of that step and later steps were still to come, and no
\* command was started
C19_Witness ==
    \E r \in Runs :
        /\ sc[r].pc = "threw"
        /\ sc[r].step = 1
        /\ sc[r].files # <<>>
        /\ sc[r].k < Len(sc[r].files)
        /\ Len(Plan(sc[r].config)) > 2
        /\ sc[r].error = "EIO: read " \o sc[r].files[sc[r].k].filePath
        /\ cmds = <<>>

(***************************************************************************)
(* C20: the render steps of the frontends and of the backend write apart   *)
(***************************************************************************)
\* the config is one the collection flow can build: every frontend name
\* passed isValidServiceName against the names taken before it
C20_ValidNames(config) ==
    \A k \in 1..Len(config.frontends) :
        isValidServiceName(config.frontends[k].name,
            <<"backend", "db">>
            \o [j \in 1..(k - 1) |-> config.frontends[j].name]) = ValidOk

\* the frontends of a config, and its backend
C20_Owners(config) ==
    {<<"frontend", k>> : k \in 1..Len(config.frontends)} \cup {<<"backend", 0>>}

\* the copyAndRenderDir calls scaffold makes for a frontend or the backend
C20_OwnerSteps(config, w) ==
    IF w[1] = "frontend" THEN FrontendSteps(config, config.frontends[w[2]])
    ELSE <<BackendStep(config)>>

\* the output paths one copyAndRenderDir call writes
C20_StepOutputs(st) ==
    IF st.templateDir \notin DOMAIN tpl THEN {}
    ELSE LET files == getAllFiles(st.templateDir, tpl[st.templateDir])
         IN  {PathJoin(st.outputDir,
                       OutputName(PathRelative(st.templateDir, files[j].filePath))) :
                  j \in 1..Len(files)}

C20_OwnerOutputs(config, w) ==
    UNION {C20_StepOutputs(C20_OwnerSteps(config, w)[m]) :
               m \in 1..Len(C20_OwnerSteps(config, w))}

C20_Disjoint(config) ==
    \A v \in C20_Owners(config), w \in C20_Owners(config) :
        v # w => C20_OwnerOutputs(config, v) \cap C20_OwnerOutputs(config, w) = {}

\* further configs whose output paths are compared: names of which one is a
\* prefix of another, a reserved name, a name used twice
C20_ProbeFrontends ==
    {[name |-> n, framework |-> f[1], styling |-> "css", port |-> Num(3000),
      useShadcn |-> f[2]] :
        n \in {"app", "app-2", "backend"}, f \in {<<"nuxt", FALSE>>, <<"vue", TRUE>>}}

C20_ProbeConfigs ==
    {[projectName |-> "demo", frontends |-> f, backendPort |-> Num(3001),
      dbName |-> "demo_db", dbUser |-> "postgres", dbPassword |-> "s3cretpass",
      jwtSecret |-> "00ff", dbAdmin |-> <<>>] :
        f \in SeqsUpTo(C20_ProbeFrontends, 2) \ {<<>>}}

\* the output path sets of a config with valid names are pairwise disjoint
C20_DisjointState ==
    \A r \in Runs :
        /\ C20_ValidNames(sc[r].config) => C20_Disjoint(sc[r].config)
        /\ sc[r].pc = "start" =>
               \A config \in C20_ProbeConfigs :
                   C20_ValidNames(config) => C20_Disjoint(config)

\* a file written during the render step of a frontend or of the backend is
\* an output path of that one and of no other
C20_WriteStep ==
    \A r \in Runs :
        (sc[r].pc = "file" /\ C20_ValidNames(sc[r].config)) =>
            \A p \in DOMAIN fs'.files :
                (p \notin DOMAIN fs.files \/ fs'.files[p] # fs.files[p]) =>
                    \A w \in C20_Owners(sc[r].config) :
                        LET st == Plan(sc[r].config)[sc[r].step]
                            mine == \E m \in 1..Len(C20_OwnerSteps(sc[r].config, w)) :
                                        C20_OwnerSteps(sc[r].config, w)[m] = st
                        IN  /\ mine => p \in C20_OwnerOutputs(sc[r].config, w)
                            /\ (~mine /\ st # RootStep(sc[r].config)) =>
                                   p \notin C20_OwnerOutputs(sc[r].config, w)

\* C20: for a config with unique, non-reserved frontend names the output
\* paths written by the render step of each frontend and of the backend are
\* pairwise disjoint: none of these steps overwrites a file of another.
C20_DisjointOutputs == [](C20_DisjointState) /\ [][C20_WriteStep]_vars

\* witness of C20: a run over two frontends of valid names has rendered
\* both and the backend, each holding its own package.json
C20_Witness ==
    \E r \in Runs :
        /\ sc[r].pc = "done"
        /\ Len(sc[r].config.frontends) = 2
        /\ C20_ValidNames(sc[r].config)
        /\ \A w \in C20_Owners(sc[r].config) :
               /\ C20_OwnerOutputs(sc[r].config, w) # {}
               /\ C20_OwnerOutputs(sc[r].config, w) \subseteq DOMAIN fs.files
        /\ {"/w/demo/app/package.json", "/w/demo/web/package.json",
            "/w/demo/backend/package.json"} \subseteq DOMAIN fs.files
        /\ \E config \in C20_ProbeConfigs : ~C20_ValidNames(config) /\ ~C20_Disjoint(config)

(***************************************************************************)
(* Concurrent specification: two invocations of the tool in one directory  *)
(* for the same project name, their awaits interleaved by the host         *)
(***************************************************************************)
ConcurrentConfig ==
    [projectName |-> "demo",
     frontends |-> <<[name |-> "app", framework |-> "nuxt", styling |-> "css",
                      port |-> Num(3000), useShadcn |-> FALSE]>>,
     backendPort |-> Num(3001), dbName |-> "demo_db", dbUser |-> "postgres",
     dbPassword |-> "s3cretpass", jwtSecret |-> "00ff", dbAdmin |-> <<>>]

ConcurrentInit ==
    /\ call = NoCall
    /\ cli = CliIdle
    /\ out = <<>>
    /\ rd = RdIdle
    /\ cmds = <<>>
    /\ env \in {[git |-> TRUE, docker |-> TRUE], [git |-> FALSE, docker |-> TRUE]}
    /\ tpl = GoodTemplates
    /\ fs \in InitialFileSystems
    /\ \E force1 \in BOOLEAN, force2 \in BOOLEAN :
        sc = <<ScEntry(ConcurrentConfig, [force |-> force1, verbose |-> FALSE]),
               ScEntry(ConcurrentConfig, [force |-> force2, verbose |-> FALSE])>>

SpecConcurrent == ConcurrentInit /\ [][Next]_vars

(***************************************************************************)
(* C21: a run in flight is the only writer of its output root              *)
(***************************************************************************)
\* run q has passed its existence check and has not returned or thrown yet
C21_InFlight(q) ==
    sc[q].pc \in {"forceRemove", "ensureDir", "step", "file", "catch", "catchRemove"}

\* C21: while a scaffold run is in flight it is the only writer of its output
\* root: no step of another run for the same project name writes into it or
\* removes it.
C21_OnlyWriter ==
    [][\A q \in Runs, r \in Runs :
          (q # r /\ C21_InFlight(q) /\ sc'[r] # sc[r]) =>
              /\ TreeOf(fs', ProjectDir(sc[q].config)) = TreeOf(fs, ProjectDir(sc[q].config))
              /\ pathExists(fs', ProjectDir(sc[q].config))
                     = pathExists(fs, ProjectDir(sc[q].config))]_vars

\* one run returned after writing its whole tree, the other failed, and the
\* rollback of the failed one has left no output root
C21_Witness ==
    /\ Len(sc) = 2
    /\ sc[1].pc = "done"
    /\ ~sc[1].existed
    /\ sc[2].pc = "threw"
    /\ ~sc[2].existed
    /\ ~pathExists(fs, ProjectDir(sc[1].config))

(***************************************************************************)
(* C22: validation leaves the accumulators alone                           *)
(***************************************************************************)
\* the names runCli has accepted so far, in the order of acceptance
C22_AcceptedNames ==
    [k \in 1..Len(cli.frontends) |-> cli.frontends[k].name]
    \o (IF cli.pc \in {"framework", "styling", "port"} THEN <<cli.serviceName>> ELSE <<>>)

\* the accumulators hold their initial elements and then every accepted
\* answer once, in the order of acceptance
C22_AccumulatorState ==
    cli.pc \in AfterCount =>
        /\ cli.usedServiceNames = <<"backend", "db">> \o C22_AcceptedNames
        /\ cli.usedPorts = <<Num(5432)>> \o AcceptedPorts

\* a step of the flow that rejects an answer changes no accumulator, a step
\* that accepts a name or a port appends that one element to its
\* accumulator, and no other step touches them
C22_AccumulatorStep ==
    (cli.pc \in AfterCount /\ cli'.pc \in AfterCount /\ cli' # cli) =>
        IF cli'.pc = cli.pc
        THEN /\ cli'.promptError # ""
             /\ cli'.usedPorts = cli.usedPorts
             /\ cli'.usedServiceNames = cli.usedServiceNames
        ELSE CASE cli.pc = "serviceName" ->
                    /\ cli'.usedServiceNames = Append(cli.usedServiceNames, cli'.serviceName)
                    /\ validateServiceName(cli'.serviceName, cli.usedServiceNames) = ""
                    /\ cli'.usedPorts = cli.usedPorts
               [] cli.pc = "port" ->
                    /\ cli'.usedPorts =
                           Append(cli.usedPorts, cli'.frontends[Len(cli'.frontends)].port)
                    /\ cli'.usedServiceNames = cli.usedServiceNames
               [] cli.pc = "backendPort" ->
                    /\ cli'.usedPorts = Append(cli.usedPorts, cli'.backendPort)
                    /\ cli'.usedServiceNames = cli.usedServiceNames
               [] cli.pc = "dbAdminPort" ->
                    /\ cli'.usedPorts = Append(cli.usedPorts, cli'.dbAdminPort)
                    /\ cli'.usedServiceNames = cli.usedServiceNames
               [] OTHER ->
                    /\ cli'.usedPorts = cli.usedPorts
                    /\ cli'.usedServiceNames = cli.usedServiceNames

\* C22: a validation call never changes its accumulator: usedPorts and
\* usedServiceNames are the same after a rejected answer, a rejected
\* candidate is never added, and they grow by exactly one element per
\* accepted answer, in the order of acceptance.
C22_AccumulatorsFramed == [](C22_AccumulatorState) /\ [][C22_AccumulatorStep]_vars

\* witness of C22: the backend-port prompt shows the problem of a rejected
\* port while the accumulators hold the two accepted frontends only
C22_Witness ==
    /\ cli.pc = "backendPort"
    /\ cli.promptError = "Port 3000 is already in use"
    /\ Len(cli.frontends) = 2
    /\ cli.usedPorts = <<Num(5432), cli.frontends[1].port, cli.frontends[2].port>>
    /\ cli.usedServiceNames = <<"backend", "db", cli.frontends[1].name, cli.frontends[2].name>>

(***************************************************************************)
(* C23: the repository a successful run leaves                             *)
(***************************************************************************)
\* the positions of cmds at which the command with these first arguments
\* was run in the output root of run r and ended with code zero
C23_Ran(r, command, first) ==
    {k \in 1..Len(cmds) :
        /\ cmds[k].command = command
        /\ cmds[k].args # <<>>
        /\ cmds[k].args[1] = first
        /\ cmds[k].cwd = ProjectDir(sc[r].config)
        /\ cmds[k].outcome = "ok"}

\* C23: after all files are generated the scaffolder runs git init and then
\* creates a first commit, so a successful run ends with an initialised
\* repository that has one commit.
C23_InitThenCommit ==
    \A r \in Runs :
        sc[r].pc = "done" =>
            /\ C23_Ran(r, "git", "init") # {}
            /\ \E k \in C23_Ran(r, "git", "commit") :
                   \A j \in C23_Ran(r, "git", "init") : j < k

\* a run has returned with git init as the only command it ran: the
\* repository exists and no commit was made
C23_Witness ==
    \E r \in Runs :
        /\ sc[r].pc = "done"
        /\ cmds = <<[command |-> "git", args |-> <<"init">>,
                     cwd |-> ProjectDir(sc[r].config), outcome |-> "ok"]>>
        /\ PathJoin(ProjectDir(sc[r].config), ".git") \in fs.dirs

(***************************************************************************)
(* C24: the external commands of a run                                     *)
(***************************************************************************)
\* every command started so far is git init in the output root of a run, no
\* run has started more than one, and npm was never started
C24_CommandsState ==
    /\ \A k \in 1..Len(cmds) :
           /\ cmds[k].command = "git"
           /\ cmds[k].args = <<"init">>
           /\ cmds[k].command # "npm"
           /\ \E r \in Runs : cmds[k].cwd = ProjectDir(sc[r].config)
    /\ \A r \in Runs :
           Cardinality({k \in 1..Len(cmds) : cmds[k].cwd = ProjectDir(sc[r].config)}) <= 1
    /\ \A r \in Runs :
           sc[r].pc \in {"start", "forceRemove", "ensureDir", "file"} => cmds = <<>>

\* a command is started only by the git step of a run, and one at a time
C24_CommandStep ==
    cmds' # cmds =>
        /\ Len(cmds') = Len(cmds) + 1
        /\ SubSeq(cmds', 1, Len(cmds)) = cmds
        /\ \E r \in Runs :
               /\ sc[r].pc = "step"
               /\ Plan(sc[r].config)[sc[r].step].kind = "git"
               /\ sc'[r].pc \in {"done", "catch"}

\* C24: a scaffold run never runs npm install, neither in the output root
\* nor below it; the only external command it runs is git init, at most once
\* per run, in the output root.
C24_OnlyGitInit == [](C24_CommandsState) /\ [][C24_CommandStep]_vars

\* witness of C24: a run over two frontends has returned after exactly one
\* command, and the output holds the package.json files npm would install
C24_Witness ==
    \E r \in Runs :
        /\ sc[r].pc = "done"
        /\ Len(sc[r].config.frontends) = 2
        /\ Len(cmds) = 1
        /\ cmds[1].command = "git"
        /\ PathJoin(ProjectDir(sc[r].config), "backend/package.json") \in DOMAIN fs.files

(***************************************************************************)
(* C25: template files and output paths of one copyAndRenderDir call       *)
(***************************************************************************)
\* the output path copyAndRenderDir computes for the k-th template file
C25_OutputPath(n, k) ==
    LET files == getAllFiles(HarnessTemplateDir, tpl[HarnessTemplateDir])
    IN  PathJoin(OutDir(n),
                 OutputName(PathRelative(HarnessTemplateDir, files[k].filePath)))

C25_FileCount == Len(getAllFiles(HarnessTemplateDir, tpl[HarnessTemplateDir]))

\* distinct template files have distinct output paths, and a completed call
\* has left as many output files as there are template files
C25_InjectiveState ==
    /\ \A j \in 1..C25_FileCount, k \in 1..C25_FileCount :
           j # k => C25_OutputPath(1, j) # C25_OutputPath(1, k)
    /\ (rd.pc = "done" \/ (rd.pc \in {"call", "file"} /\ rd.n = 2)) =>
           Cardinality(DOMAIN TreeOf(fs, OutDir(1)).files) = C25_FileCount

\* no file of a call is written over an output of an earlier file of the
\* same call
C25_NoOverwriteStep ==
    (rd.pc = "file" /\ rd' # rd) =>
        \A p \in DOMAIN fs.files :
            IsUnder(p, OutDir(rd.n)) => fs'.files[p] = fs.files[p]

\* C25: within one copyAndRenderDir call two distinct template files never
\* produce the same output path, so the number of output files equals the
\* number of template files and no output is overwritten by a later file of
\* the same call.
C25_InjectiveOutputs == [](C25_InjectiveState) /\ [][C25_NoOverwriteStep]_vars

\* a call over the two template files a.ejs and a has completed and left the
\* single output a, holding the copy of a in place of the rendering of a.ejs
C25_Witness ==
    /\ rd.pc = "done"
    /\ C25_FileCount = 2
    /\ C25_OutputPath(1, 1) = C25_OutputPath(1, 2)
    /\ DOMAIN TreeOf(fs, OutDir(1)).files = {"a"}
    /\ TreeOf(fs, OutDir(1)).files["a"] = <<Lit("static")>>

C27_NameProbes ==
    ProjectNameAnswers
    \cup {"..", ".", "../up", "a/b", "/abs", "a/../..", "my-app", "a.b", "-a", "a-", "app2"}

\* an accepted project name is one path component: lower-case letters,
\* digits and single hyphens, so cwd/projectName is a child of cwd
C27_NameState ==
    /\ \A n \in C27_NameProbes :
           isValidProjectName(n) = ValidOk =>
               /\ Len(n) >= 1
               /\ \A k \in 1..Len(n) :
                      IsLowerOrDigit(CharAt(n, k)) \/ CharAt(n, k) = "-"
               /\ Dirname(PathJoin(Cwd, n)) = Cwd
    /\ \A r \in Runs :
           isValidProjectName(sc[r].config.projectName) = ValidOk =>
               /\ Dirname(ProjectDir(sc[r].config)) = Cwd
               /\ ProjectDir(sc[r].config) # Cwd

\* a step of a run leaves every path outside the output root as it is
C27_FrameStep ==
    \A r \in Runs :
        isValidProjectName(sc[r].config.projectName) = ValidOk =>
            /\ \A p \in fs.dirs \cup fs'.dirs :
                   ~IsUnder(p, ProjectDir(sc[r].config)) =>
                       (p \in fs.dirs /\ p \in fs'.dirs)
            /\ \A p \in DOMAIN fs.files \cup DOMAIN fs'.files :
                   ~IsUnder(p, ProjectDir(sc[r].config)) =>
                       /\ p \in DOMAIN fs.files
                       /\ p \in DOMAIN fs'.files
                       /\ fs'.files[p] = fs.files[p]

\* C27: for every projectName isValidProjectName accepts, a scaffold run
\* (successful, failed or rejected) creates, modifies and deletes only paths
\* at or below cwd/projectName, a direct child of the invocation directory;
\* the force removal and the rollback removal remove no other path.
C27_TouchesOnlyRoot == [](C27_NameState) /\ [][C27_FrameStep]_vars

\* witness of C27: a forced run over an existing root removed it, wrote
\* again, failed and removed the root once more; the sibling directory and
\* its file are as they were
C27_Witness ==
    \E r \in Runs :
        /\ sc[r].pc = "threw"
        /\ sc[r].existed
        /\ sc[r].force
        /\ sc[r].step > 1
        /\ ~pathExists(fs, ProjectDir(sc[r].config))
        /\ "/w/keep" \in fs.dirs
        /\ "/w/keep/notes.txt" \in DOMAIN fs.files
        /\ fs.files["/w/keep/notes.txt"] = <<Lit("notes")>>

(***************************************************************************)
(* Defaults specification: runCli from the accepted frontend count on,     *)
(* every text prompt answered with the default it offers and every select  *)
(* with its initial value, for each count and each DB admin tool           *)
(***************************************************************************)
\* the frontend counts the count prompt accepts
AcceptedCounts == {n \in 0..9 : validateFrontendCount(NumberToString(n)) = ""}

DefaultsInit ==
    /\ call = NoCall
    /\ env = [git |-> TRUE, docker |-> TRUE]
    /\ out = <<>>
    /\ fs = EmptyFs
    /\ tpl = <<>>
    /\ rd = RdIdle
    /\ sc = ScIdle
    /\ cmds = <<>>
    /\ \E n \in AcceptedCounts, tool \in {"none", "pgadmin", "adminer"} :
        cli = [CliIdle EXCEPT !.pc = "serviceName", !.projectName = "demo",
                              !.frontendCount = n, !.dbAdminTool = tool,
                              !.usedPorts = InitialUsedPorts,
                              !.usedServiceNames = InitialUsedServiceNames]

\* the name prompt answered with its defaultValue
DefaultsServiceName ==
    /\ cli.pc = "serviceName"
    /\ LET value == DefaultServiceName(cli.frontendCount, cli.i)
       IN  IF validateServiceName(value, cli.usedServiceNames) # ""
           THEN cli' = [cli EXCEPT !.pc = "rejected",
                           !.promptError = validateServiceName(value, cli.usedServiceNames)]
           ELSE cli' = [cli EXCEPT !.pc = "framework", !.serviceName = value,
                           !.usedServiceNames = Append(@, value)]
    /\ UNCHANGED <<call, env, out, fs, tpl, rd, sc, cmds>>

\* the framework select left at its initialValue
DefaultsFramework ==
    /\ cli.pc = "framework"
    /\ cli' = [cli EXCEPT !.pc = "styling", !.framework = "nuxt"]
    /\ UNCHANGED <<call, env, out, fs, tpl, rd, sc, cmds>>

\* the styling select left at its initialValue
DefaultsStyling ==
    /\ cli.pc = "styling"
    /\ cli' = [cli EXCEPT !.pc = "port", !.styling = "css"]
    /\ UNCHANGED <<call, env, out, fs, tpl, rd, sc, cmds>>

\* the port prompt answered with its defaultValue
DefaultsPort ==
    /\ cli.pc = "port"
    /\ LET value == NumberToString(DefaultFrontendPort(cli.i))
           fe == [name |-> cli.serviceName, framework |-> cli.framework,
                  styling |-> cli.styling, port |-> parseInt(value)]
       IN  IF validatePort(value, cli.usedPorts) # ""
           THEN cli' = [cli EXCEPT !.pc = "rejected",
                           !.promptError = validatePort(value, cli.usedPorts)]
           ELSE cli' = [cli EXCEPT
                           !.pc = IF cli.i + 1 < cli.frontendCount
                                  THEN "serviceName" ELSE "backendPort",
                           !.usedPorts = Append(@, parseInt(value)),
                           !.frontends = Append(@, fe),
                           !.i = cli.i + 1]
    /\ UNCHANGED <<call, env, out, fs, tpl, rd, sc, cmds>>

\* the backend-port prompt answered with its defaultValue
DefaultsBackendPort ==
    /\ cli.pc = "backendPort"
    /\ IF validatePort("3001", cli.usedPorts) # ""
       THEN cli' = [cli EXCEPT !.pc = "rejected",
                       !.promptError = validatePort("3001", cli.usedPorts)]
       ELSE cli' = [cli EXCEPT
                       !.pc = IF cli.dbAdminTool # "none" THEN "dbAdminPort" ELSE "confirm",
                       !.backendPort = parseInt("3001"),
                       !.usedPorts = Append(@, parseInt("3001"))]
    /\ UNCHANGED <<call, env, out, fs, tpl, rd, sc, cmds>>

\* the admin-port prompt answered with its defaultValue
DefaultsDbAdminPort ==
    /\ cli.pc = "dbAdminPort"
    /\ LET value == NumberToString(DefaultDbAdminPort(cli.dbAdminTool))
       IN  IF validatePort(value, cli.usedPorts) # ""
           THEN cli' = [cli EXCEPT !.pc = "rejected",
                           !.promptError = validatePort(value, cli.usedPorts)]
           ELSE cli' = [cli EXCEPT !.pc = "confirm",
                           !.dbAdminPort = parseInt(value),
                           !.usedPorts = Append(@, parseInt(value))]
    /\ UNCHANGED <<call, env, out, fs, tpl, rd, sc, cmds>>

DefaultsNext ==
    \/ DefaultsServiceName
    \/ DefaultsFramework
    \/ DefaultsStyling
    \/ DefaultsPort
    \/ DefaultsBackendPort
    \/ DefaultsDbAdminPort

SpecDefaults == DefaultsInit /\ [][DefaultsNext]_vars

(***************************************************************************)
(* C28: the defaults are consistent                                        *)
(***************************************************************************)
\* the ports and names accepted so far, as integers and strings
C28_Ports == [k \in 1..Len(AcceptedPorts) |-> IntOf(AcceptedPorts[k])]
C28_Names == [k \in 1..Len(cli.frontends) |-> cli.frontends[k].name]

C29_OverlayDir == "/t/frontend/vue-shadcn"

\* the positions of the plan at which the overlay is rendered
C29_OverlaySteps(config) ==
    {m \in 1..Len(Plan(config)) : Plan(config)[m].templateDir = C29_OverlayDir}

\* the frontends that ask for the overlay
C29_OverlayFrontends(config) ==
    {k \in 1..Len(config.frontends) :
        config.frontends[k].framework = "vue" /\ config.frontends[k].useShadcn}

\* frontends of every framework with useShadcn set and not set
C29_ProbeFrontends ==
    {[name |-> "app", framework |-> f, styling |-> "css", port |-> Num(3000),
      useShadcn |-> u] : f \in {"nuxt", "vue"}, u \in BOOLEAN}

\* the overlay is rendered once per vue frontend with useShadcn, right
\* after the base vue subtree of that frontend and into the same directory,
\* and for no other frontend
C29_PlanState ==
    \A r \in Runs :
        LET config == sc[r].config
            P == Plan(config)
        IN  /\ Cardinality(C29_OverlaySteps(config))
                   = Cardinality(C29_OverlayFrontends(config))
            /\ \A m \in C29_OverlaySteps(config) :
                   /\ m > 1
                   /\ P[m - 1].templateDir = "/t/frontend/vue"
                   /\ P[m - 1].outputDir = P[m].outputDir
                   /\ \E k \in C29_OverlayFrontends(config) :
                          P[m].outputDir = PathJoin(ProjectDir(config), config.frontends[k].name)
            /\ \A fe \in C29_ProbeFrontends :
                   Len(FrontendSteps(config, fe)) =
                       (IF fe.framework = "vue" /\ fe.useShadcn THEN 2 ELSE 1)

\* the overlay starts on a completely rendered base subtree, and once it is
\* complete every file of the overlay holds the overlay's version, also at
\* the paths the base subtree wrote before; with unique names that is still
\* so when the run returns
C29_OverlayState ==
    \A r \in Runs :
        \A m \in C29_OverlaySteps(sc[r].config) :
            LET st == Plan(sc[r].config)[m]
                base == Plan(sc[r].config)[m - 1]
                started == sc[r].pc \in {"step", "file"} /\ sc[r].step = m
                complete ==
                    \/ sc[r].pc = "step" /\ sc[r].step = m + 1
                    \/ /\ C20_ValidNames(sc[r].config)
                       /\ sc[r].pc \in {"step", "file", "done"}
                       /\ sc[r].step > m
            IN  /\ started => C20_StepOutputs(base) \subseteq DOMAIN fs.files
                /\ complete =>
                       LET files == getAllFiles(st.templateDir, tpl[st.templateDir])
                       IN  /\ C20_StepOutputs(base) \subseteq DOMAIN fs.files
                           /\ \A j \in 1..Len(files) :
                                  LET p == PathJoin(st.outputDir,
                                               ExpectedOutputName(
                                                   PathRelative(st.templateDir, files[j].filePath)))
                                  IN  /\ p \in DOMAIN fs.files
                                      /\ fs.files[p] = ExpectedContent(files[j], st.data)

\* C29: for a vue frontend with useShadcn the vue-shadcn subtree is rendered
\* into the frontend's directory after the base vue subtree is complete and
\* before the next frontend starts, so a path of both subtrees holds the
\* vue-shadcn version; for every other frontend no overlay is rendered.
C29_OverlayAfterBase == C29_PlanState /\ C29_OverlayState

\* witness of C29: a run over a nuxt frontend and a vue frontend with
\* useShadcn returned; package.json of the second is the overlay's, a file of
\* the base subtree is there too, and the first frontend has no overlay file
C29_Witness ==
    \E r \in Runs :
        /\ sc[r].pc = "done"
        /\ Len(sc[r].config.frontends) = 2
        /\ C29_OverlaySteps(sc[r].config) = {3}
        /\ fs.files["/w/demo/web/package.json"] = <<Lit("vue-shadcn web true")>>
        /\ "/w/demo/web/src/App.vue" \in DOMAIN fs.files
        /\ "/w/demo/web/components.json" \in DOMAIN fs.files
        /\ "/w/demo/app/components.json" \notin DOMAIN fs.files

(***************************************************************************)
(* C30: when scaffold is invoked                                           *)
(***************************************************************************)
\* the user cancelled a prompt or answered no to the confirmation
C30_Declined ==
    \E k \in 1..Len(out) :
        out[k] \in {"cancel: Operation cancelled.", "outro: Generation cancelled."}

\* every prompt has an accepted answer
C30_AllAnswered ==
    /\ isValidProjectName(cli.projectName) = ValidOk
    /\ cli.frontendCount >= 1
    /\ Len(cli.frontends) = cli.frontendCount
    /\ cli.backendPort # NaN
    /\ cli.dbName # ""
    /\ cli.dbUser # ""
    /\ cli.dbPassword # ""
    /\ cli.dbAdminTool \in {"none", "pgadmin", "adminer"}
    /\ cli.dbAdminTool # "none" => cli.dbAdminPort # NaN
    /\ cli.dbAdminTool = "pgadmin" => cli.pgAdminEmail # ""
    /\ cli.config # <<>>

\* after a cancel or a no, scaffold has not been invoked and nothing was
\* written or run; scaffold is in progress only below runCli's await
C30_InvokedState ==
    /\ C30_Declined =>
           /\ sc = ScIdle
           /\ fs = EmptyFs
           /\ cmds = <<>>
           /\ cli.pc \in {"exited", "returned"}
    /\ sc # ScIdle => Len(sc) = 1 /\ cli.pc = "awaitScaffold" /\ C30_AllAnswered
    /\ cli.pc = "scaffold" => C30_AllAnswered /\ sc = ScIdle
    /\ sc = ScIdle => fs = EmptyFs /\ cmds = <<>>

\* scaffold is invoked by the one statement after the accepted
\* confirmation, with the config just built, and never a second time
C30_InvokeStep ==
    /\ sc' # sc =>
           /\ sc = ScIdle
           /\ cli.pc = "scaffold"
           /\ sc' = <<ScEntry(cli.config[1], cli.options)>>
    /\ (cli'.pc = "scaffold" /\ cli.pc # "scaffold") =>
           /\ cli.pc = "confirm"
           /\ out' = out
    /\ sc = ScIdle => fs' = fs /\ cmds' = cmds

\* C30: if the user cancels any prompt or answers no to the final
\* confirmation, scaffold is never invoked and no file or directory is
\* written; scaffold is invoked at most once per runCli, and only after every
\* prompt has been answered and the confirmation accepted.
C30_ScaffoldOnlyOnYes == [](C30_InvokedState) /\ [][C30_InvokeStep]_vars

\* witness of C30: every prompt was answered, pgAdmin included, and the
\* user answered no: runCli returned without a scaffold run
C30_Witness ==
    /\ cli.pc = "returned"
    /\ out # <<>>
    /\ out[Len(out)] = "outro: Generation cancelled."
    /\ sc = ScIdle
    /\ fs = EmptyFs

====
